---- MODULE Spec2Model ----
(***************************************************************************)
(* Backup orchestration of cinder (cmss-cinder): the API-side orchestrator *)
(* (cinder/backup/api.py), the per-host executor                           *)
(* (cinder/backup/manager.py) and the cast/call layer                      *)
(* (cinder/backup/rpcapi.py).                                              *)
(*                                                                         *)
(* Every handler is a thread of control whose steps are its accesses to    *)
(* the shared record store, the quota ledger and the message bus: the API  *)
(* service and the executor run their requests as green threads (and as    *)
(* separate processes), so two handlers interleave between any two         *)
(* accesses.  The local computation between two accesses belongs to the    *)
(* step of the access before it.                                           *)
(***************************************************************************)
EXTENDS Integers, Sequences, FiniteSets, TLC

VARIABLES
    volumes,    \* VolumeIds -> the Volume record (status, display_description, size)
    backups,    \* BackupIds -> the Backup record (exists = FALSE: never inserted)
    quota,      \* the project's quota usage: in_use and reserved, per resource
    msgs,       \* cast messages in flight on the message bus
    thr,        \* ThreadIds -> a running or finished handler (API call or executor task)
    nthr,       \* number of handlers started so far
    ncalls,     \* number of API calls made so far
    ndup        \* number of duplicate deliveries made so far

vars == <<volumes, backups, quota, msgs, thr, nthr, ncalls, ndup>>

---------------------------------------------------------------------------
(* Bounds of the model *)

NumVolumes == 1
MaxBackups == 3
MaxCalls == 2
MaxDup == 1
MaxQuotaBackups == 2
MaxQuotaGigabytes == 2
MaxBackupSizeMB == 1

VolumeIds == 1..NumVolumes
BackupIds == 1..MaxBackups
ThreadIds == 1..(2 * MaxCalls + MaxDup)

(* None: the null reference (parent_id None, no backup bound to a local) *)
None == 0

---------------------------------------------------------------------------
(* Free text.  A description is a sequence of tokens: "d" is a piece of     *)
(* user text, "P" the PERIODICSTR sentinel, "M" the MAGICSTR sentinel.      *)
(* The empty sequence is the falsy description (None or "").                *)

PERIODICSTR == <<"P">>
MAGICSTR == <<"M">>

UserDescriptions == {<<>>, <<"d">>}

\* PERIODICSTR in description
HasPeriodicTag(desc) == \E i \in 1..Len(desc) : desc[i] = PERIODICSTR[1]

\* description[-6:] == MAGICSTR
EndsWithMagic(desc) == Len(desc) > 0 /\ desc[Len(desc)] = MAGICSTR[1]

---------------------------------------------------------------------------
(* Records *)

VolumeStatuses == {"available", "backing-up", "restoring-backup", "error",
                   "error_restoring", "in-use", "creating"}

NoBackup == [exists |-> FALSE, deleted |-> FALSE, status |-> "",
             volume_id |-> None, parent_id |-> None, size |-> 0,
             container |-> "", display_name |-> "", desc |-> <<>>,
             fail_reason |-> "", service |-> "", object_count |-> 0,
             service_metadata |-> "", host |-> None,
             availability_zone |-> "",
             parent_status_at_select |-> ""]

IdleThread == [op |-> "idle", pc |-> "idle", vol |-> None, bk |-> None,
               vstatus |-> "", vdesc |-> "", bstatus |-> "",
               incremental |-> FALSE, periodic |-> FALSE, desc |-> <<>>,
               parent |-> None, pstatus |-> "", resv |-> "none",
               resv_b |-> 0, resv_gb |-> 0, size |-> 0,
               bservice |-> "", todo |-> <<>>, service |-> "",
               blob |-> <<>>, hosts |-> <<>>, host |-> None, result |-> "",
               target |-> "", verifies |-> FALSE, seen |-> <<>>,
               members |-> <<>>, vm |-> "", freeze |-> "", thaws |-> 0,
               attempt |-> 0,
               sent |-> FALSE, from |-> None]

\* the host whose executor runs the create, restore and delete tasks, and
\* the backup driver each host is configured with
ThisHost == 1

HostDrivers == <<"svc1", "svc2">>

\* the availability zone of the executors
AvailabilityZone == "az1"

\* a record that exists and is not soft-deleted: what backup_get returns
Live(b) == backups[b].exists /\ ~backups[b].deleted

LiveBackups == {b \in BackupIds : Live(b)}

\* the id the next backup_create hands out; creation order is id order
NextBackupId == Cardinality({b \in BackupIds : backups[b].exists}) + 1

Running(t) == thr[t].pc \notin {"idle", "done"}

\* a handler that returned or raised keeps what its caller and the ledger can
\* still see of it: the call, its outcome, its reservation, what it cast
Finish(t, res) ==
    [IdleThread EXCEPT !.op = thr[t].op, !.pc = "done", !.result = res,
                       !.vol = thr[t].vol, !.bk = thr[t].bk,
                       !.resv = thr[t].resv, !.sent = thr[t].sent,
                       !.blob = thr[t].blob, !.host = thr[t].host,
                       !.service = thr[t].service]

---------------------------------------------------------------------------
(* QuotaLedger: QUOTAS.reserve / commit / rollback.  A positive delta is    *)
(* held in `reserved` until it is committed or rolled back; a negative      *)
(* delta changes in_use only when committed.                                *)

Pos(n) == IF n > 0 THEN n ELSE 0

\* the resources a reservation of (db, dgb) would take over their limits
Overs(db, dgb) ==
    {r \in {"backups", "backup_gigabytes"} :
        \/ r = "backups" /\ db > 0
             /\ quota.in_use_b + quota.reserved_b + db > MaxQuotaBackups
        \/ r = "backup_gigabytes" /\ dgb > 0
             /\ quota.in_use_gb + quota.reserved_gb + dgb > MaxQuotaGigabytes}

QuotaReserve(db, dgb) ==
    [quota EXCEPT !.reserved_b = @ + Pos(db), !.reserved_gb = @ + Pos(dgb)]

QuotaCommit(db, dgb) ==
    [quota EXCEPT !.reserved_b = @ - Pos(db), !.reserved_gb = @ - Pos(dgb),
                  !.in_use_b = @ + db, !.in_use_gb = @ + dgb]

QuotaRollback(db, dgb) ==
    [quota EXCEPT !.reserved_b = @ - Pos(db), !.reserved_gb = @ - Pos(dgb)]

---------------------------------------------------------------------------
(* Initial states: the volumes exist, and the store holds what earlier,     *)
(* completed calls left in it: nothing, or one backup of volume 1 that      *)
(* Create and the executor's create_backup made available (the state they   *)
(* end in from the empty store), with its quota committed.                  *)

InitVolume(v) == [exists |-> TRUE, status |-> "available",
                  display_description |-> "", size |-> 1,
                  host |-> ThisHost, attachments |-> {},
                  volume_type |-> "ebs-data"]

\* an id no volume has been created under
NoVolume == [exists |-> FALSE, status |-> "", display_description |-> "",
             size |-> 0, host |-> None, attachments |-> {},
             volume_type |-> ""]

\* the record create_backup leaves behind on success
AvailableBackup(v, desc) ==
    [NoBackup EXCEPT !.exists = TRUE, !.status = "available",
                     !.volume_id = v, !.size = 1, !.container = "c1",
                     !.display_name = "name", !.desc = desc,
                     !.service = HostDrivers[ThisHost],
                     !.service_metadata = "meta", !.object_count = 1,
                     !.host = ThisHost,
                     !.availability_zone = AvailabilityZone]

EmptyQuota == [in_use_b |-> 0, in_use_gb |-> 0, reserved_b |-> 0,
               reserved_gb |-> 0]

\* the usage after n backups of 1 GB volumes were accepted
QuotaAfter(n) == [EmptyQuota EXCEPT !.in_use_b = n, !.in_use_gb = n]

InitIdle ==
    /\ msgs = {}
    /\ thr = [t \in ThreadIds |-> IdleThread]
    /\ nthr = 0
    /\ ncalls = 0
    /\ ndup = 0

Init ==
    /\ volumes = [v \in VolumeIds |-> InitVolume(v)]
    /\ \E n \in {0, 1} :
          /\ backups = [b \in BackupIds |->
                 IF b <= n THEN AvailableBackup(1, <<"d">>) ELSE NoBackup]
          /\ quota = QuotaAfter(n)
    /\ InitIdle

---------------------------------------------------------------------------
(* Starting a handler: it takes the next free thread slot. *)

NewThread == nthr + 1

Spawn(rec) ==
    /\ nthr < Cardinality(ThreadIds)
    /\ thr' = [thr EXCEPT ![NewThread] = rec]
    /\ nthr' = nthr + 1

NewCall(rec) ==
    /\ ncalls < MaxCalls
    /\ ncalls' = ncalls + 1
    /\ Spawn(rec)

Step(t, rec) == thr' = [thr EXCEPT ![t] = rec]

At(t, op, pc) == thr[t].op = op /\ thr[t].pc = pc

\* rpcapi cast: the message names the operation, its arguments and the call
\* that sent it (two calls casting the same operation send two messages)
Message(t, op, b, v) ==
    [op |-> op, bk |-> b, vol |-> v, from |-> t, host |-> ThisHost,
     service |-> "", url |-> <<>>, hosts |-> <<>>, status |-> "",
     members |-> <<>>]

Cast(t, op, b, v) == msgs \cup {Message(t, op, b, v)}

---------------------------------------------------------------------------
(* API.create: cinder/backup/api.py 138-279 *)

\* description as stored: a periodic request is tagged with PERIODICSTR
CreateDescription(periodic, desc) ==
    IF periodic THEN PERIODICSTR \o desc ELSE desc

\* the volume's backups that do not carry the periodic tag
NormalBackups(v) ==
    {b \in LiveBackups : backups[b].volume_id = v
                         /\ ~HasPeriodicTag(backups[b].desc)}

\* (mutant) an older available backup is preferred to a later one that is
\* not available
LatestAvailableBackup(v) ==
    LET usable == {b \in NormalBackups(v) : backups[b].status = "available"}
        among == IF usable # {} THEN usable ELSE NormalBackups(v)
    IN  IF among = {} THEN None
        ELSE CHOOSE b \in among : \A c \in among : c <= b

\* max(normal_backups, key=created_at), None when there is none
LatestBackup(v) ==
    IF NormalBackups(v) = {} THEN None
    ELSE CHOOSE b \in NormalBackups(v) : \A c \in NormalBackups(v) : c <= b

\* (mutant) the candidate becomes the parent whatever its status
ParentOfAnyStatus(latest) == latest

\* parent_id chosen from the candidate's status as read
ParentOf(latest) ==
    IF latest # None /\ backups[latest].status = "available"
    THEN latest ELSE None

\* the candidate parent is itself being created: Create refuses
ParentIsCreating(latest) ==
    latest # None /\ backups[latest].status = "creating"

\* the typed error raised for the first resource of `overs`
QuotaError(over) ==
    IF over = "backup_gigabytes"
    THEN "VolumeBackupSizeExceedsAvailableQuota"
    ELSE "BackupLimitExceeded"

\* the Backup record inserted by create (options, api.py 243-260)
NewBackupRecord(v, name, desc, parent, pstatus) ==
    [NoBackup EXCEPT !.exists = TRUE, !.status = "creating",
                     !.volume_id = v, !.parent_id = parent, !.size = 0,
                     !.display_name = name, !.desc = desc,
                     !.host = ThisHost,
                     !.parent_status_at_select = pstatus]

\* lines 142-150: read the volume, check its status and the backup service
CreateGetVolume(v, incremental, periodic, desc, serviceUp) ==
    /\ NextBackupId + Cardinality({t \in ThreadIds :
           thr[t].op = "create" /\ Running(t) /\ thr[t].bk = None}) \in BackupIds
    /\ LET call == [IdleThread EXCEPT !.op = "create", !.vol = v,
                        !.incremental = incremental, !.periodic = periodic,
                        !.desc = desc,
                        !.vstatus = volumes[v].status,
                        !.size = volumes[v].size]
       IN  NewCall(IF volumes[v].status # "available"
                   THEN [call EXCEPT !.pc = "done", !.result = "InvalidVolume"]
                   ELSE IF ~serviceUp
                   THEN [call EXCEPT !.pc = "done", !.result = "ServiceNotFound"]
                   ELSE [call EXCEPT !.pc = "c_reserve"])
    /\ UNCHANGED <<volumes, backups, quota, msgs, ndup>>

\* (mutant) the volume is taken to backing-up before the quota is reserved
CreateReserveAfterVolumeUpdate(t) ==
    /\ At(t, "create", "c_reserve")
    /\ volumes' = [volumes EXCEPT ![thr[t].vol].status = "backing-up"]
    /\ LET overs == Overs(1, thr[t].size)
       IN  IF overs # {}
           THEN /\ \E over \in overs : Step(t, Finish(t, QuotaError(over)))
                /\ UNCHANGED quota
           ELSE /\ quota' = QuotaReserve(1, thr[t].size)
                /\ Step(t, [thr[t] EXCEPT
                       !.resv = "open", !.resv_b = 1, !.resv_gb = thr[t].size,
                       !.pc = "c_volume"])
    /\ UNCHANGED <<backups, msgs, nthr, ncalls, ndup>>

\* lines 152-199: QUOTAS.reserve, the OverQuota classification, the
\* periodic tag
CreateReserve(t) ==
    /\ At(t, "create", "c_reserve")
    /\ LET overs == Overs(1, thr[t].size)
       IN  IF overs # {}
           THEN /\ \E over \in overs : Step(t, Finish(t, QuotaError(over)))
                /\ UNCHANGED quota
           ELSE /\ quota' = QuotaReserve(1, thr[t].size)
                /\ Step(t, [thr[t] EXCEPT
                       !.resv = "open", !.resv_b = 1, !.resv_gb = thr[t].size,
                       !.desc = CreateDescription(thr[t].periodic, thr[t].desc),
                       !.pc = IF ~thr[t].periodic /\ thr[t].incremental
                              THEN "c_parent" ELSE "c_volume"])
    /\ UNCHANGED <<volumes, backups, msgs, nthr, ncalls, ndup>>

\* lines 200-239: backup_get_all_by_volume and the choice of the parent
CreateResolveParent(t) ==
    /\ At(t, "create", "c_parent")
    /\ LET latest == LatestBackup(thr[t].vol)
       IN  IF ParentIsCreating(latest)
           THEN Step(t, Finish(t, "InvalidBackup"))
           ELSE Step(t, [thr[t] EXCEPT
                    !.parent = ParentOf(latest),
                    !.pstatus = IF ParentOf(latest) # None
                                THEN backups[latest].status ELSE "",
                    !.pc = "c_volume"])
    /\ UNCHANGED <<volumes, backups, quota, msgs, nthr, ncalls, ndup>>

\* (mutant) the record is inserted without the volume being taken
CreateSkipsBackingUp(t) ==
    /\ At(t, "create", "c_volume")
    /\ Step(t, [thr[t] EXCEPT !.pc = "c_insert"])
    /\ UNCHANGED <<volumes, backups, quota, msgs, nthr, ncalls, ndup>>

\* line 241: volume_update(status: backing-up)
CreateSetBackingUp(t) ==
    /\ At(t, "create", "c_volume")
    /\ volumes' = [volumes EXCEPT ![thr[t].vol].status = "backing-up"]
    /\ Step(t, [thr[t] EXCEPT !.pc = "c_insert"])
    /\ UNCHANGED <<backups, quota, msgs, nthr, ncalls, ndup>>

\* line 262: backup_create succeeds
CreateInsert(t) ==
    /\ At(t, "create", "c_insert")
    /\ NextBackupId \in BackupIds
    /\ backups' = [backups EXCEPT ![NextBackupId] =
           NewBackupRecord(thr[t].vol, "name", thr[t].desc, thr[t].parent,
                           thr[t].pstatus)]
    /\ Step(t, [thr[t] EXCEPT !.bk = NextBackupId, !.pc = "c_commit"])
    /\ UNCHANGED <<volumes, quota, msgs, nthr, ncalls, ndup>>

\* lines 262-269: backup_create raises.  The handler reads backup['id'] of a
\* local that was never bound (UnboundLocalError); its finally clause rolls
\* the reservation back, and save_and_reraise_exception lets the new
\* exception through in place of the original
CreateInsertFails(t) ==
    /\ At(t, "create", "c_insert")
    /\ quota' = QuotaRollback(thr[t].resv_b, thr[t].resv_gb)
    /\ Step(t, [Finish(t, "UnboundLocalError") EXCEPT !.resv = "rolledback"])
    /\ UNCHANGED <<volumes, backups, msgs, nthr, ncalls, ndup>>

\* line 263: QUOTAS.commit
CreateCommit(t) ==
    /\ At(t, "create", "c_commit")
    /\ quota' = QuotaCommit(thr[t].resv_b, thr[t].resv_gb)
    /\ Step(t, [thr[t] EXCEPT !.resv = "committed", !.pc = "c_cast"])
    /\ UNCHANGED <<volumes, backups, msgs, nthr, ncalls, ndup>>

\* lines 263-267: QUOTAS.commit raises; the handler destroys the record
CreateCommitFails(t) ==
    /\ At(t, "create", "c_commit")
    /\ backups' = [backups EXCEPT ![thr[t].bk].deleted = TRUE]
    /\ Step(t, [thr[t] EXCEPT !.pc = "c_rollback"])
    /\ UNCHANGED <<volumes, quota, msgs, nthr, ncalls, ndup>>

\* lines 268-269: ... and rolls the reservation back, then re-raises
CreateRollback(t) ==
    /\ At(t, "create", "c_rollback")
    /\ quota' = QuotaRollback(thr[t].resv_b, thr[t].resv_gb)
    /\ Step(t, [Finish(t, "QuotaCommitError") EXCEPT !.resv = "rolledback"])
    /\ UNCHANGED <<volumes, backups, msgs, nthr, ncalls, ndup>>

\* lines 274-279: cast create_backup to the volume's host, return the backup
CreateCast(t) ==
    /\ At(t, "create", "c_cast")
    /\ msgs' = Cast(t, "create_backup", thr[t].bk, thr[t].vol)
    /\ Step(t, [Finish(t, "ok") EXCEPT !.sent = TRUE])
    /\ UNCHANGED <<volumes, backups, quota, nthr, ncalls, ndup>>

---------------------------------------------------------------------------
(* Delivery of a cast message to the executor: a new task starts.  The bus  *)
(* is at-least-once: DeliverAgain starts a task and leaves the message in   *)
(* flight.                                                                  *)

\* the executor's configured backup driver (self.driver_name)
DriverName == HostDrivers[ThisHost]

\* db.backup_update: a record that is gone raises BackupNotFound
BackupUpdate(b, rec) == [backups EXCEPT ![b] = rec]

Task(m, op) == [IdleThread EXCEPT !.op = op, !.bk = m.bk, !.vol = m.vol,
                                  !.from = m.from, !.host = m.host]

---------------------------------------------------------------------------
(* BackupManager.create_backup: cinder/backup/manager.py 265-341 *)

\* line 267: backup_get
XCreateGetBackup(m, again) ==
    /\ m \in msgs /\ m.op = "create_backup"
    /\ IF again THEN ndup < MaxDup /\ ndup' = ndup + 1 /\ UNCHANGED msgs
                ELSE msgs' = msgs \ {m} /\ UNCHANGED ndup
    /\ Spawn(IF Live(m.bk)
             THEN [Task(m, "x_create") EXCEPT !.pc = "xc_volume",
                       !.bstatus = backups[m.bk].status]
             ELSE [Task(m, "x_create") EXCEPT !.pc = "done",
                       !.result = "BackupNotFound"])
    /\ UNCHANGED <<volumes, backups, quota, ncalls>>

\* line 269: volume_get
XCreateGetVolume(t) ==
    /\ At(t, "x_create", "xc_volume")
    /\ Step(t, [thr[t] EXCEPT !.vstatus = volumes[thr[t].vol].status,
                              !.pc = "xc_service"])
    /\ UNCHANGED <<volumes, backups, quota, msgs, nthr, ncalls, ndup>>

\* where create_backup goes after its two precondition checks (282-305)
XCreateBranch(vstatus, bstatus, driverOk) ==
    IF vstatus # "backing-up" THEN "xc_abort_volume"
    ELSE IF bstatus # "creating" THEN "xc_abort_backup"
    ELSE IF driverOk THEN "xc_done_volume"
    ELSE "xc_fail_volume"

\* lines 278-319: backup_update(host, service), the precondition checks on
\* the statuses read at 267 and 269, and the driver's backup_volume, which
\* returns {size, container} or raises
XCreateSetService(t, driverOk, sizeMB) ==
    /\ At(t, "x_create", "xc_service")
    /\ IF Live(thr[t].bk)
       THEN /\ backups' = BackupUpdate(thr[t].bk,
                   [backups[thr[t].bk] EXCEPT !.host = ThisHost,
                                              !.service = DriverName])
            /\ Step(t, [thr[t] EXCEPT !.size = sizeMB,
                   !.pc = XCreateBranch(thr[t].vstatus, thr[t].bstatus,
                                        driverOk)])
       ELSE /\ Step(t, Finish(t, "BackupNotFound"))
            /\ UNCHANGED backups
    /\ UNCHANGED <<volumes, quota, msgs, nthr, ncalls, ndup>>

\* a backup_update that ends the task: the record is written and the task
\* returns or raises `res`; BackupNotFound when the record is gone
XFinalBackupUpdate(t, rec, res) ==
    /\ IF Live(thr[t].bk)
       THEN /\ backups' = BackupUpdate(thr[t].bk, rec)
            /\ Step(t, Finish(t, res))
       ELSE /\ Step(t, Finish(t, "BackupNotFound"))
            /\ UNCHANGED backups

\* lines 284-292: the volume is not backing-up
XCreateAbortVolume(t) ==
    /\ At(t, "x_create", "xc_abort_volume")
    /\ XFinalBackupUpdate(t, [backups[thr[t].bk] EXCEPT !.status = "error",
              !.fail_reason = "expected volume status"], "InvalidVolume")
    /\ UNCHANGED <<volumes, quota, msgs, nthr, ncalls, ndup>>

\* line 302: the backup is not creating: volume_update(status: available)
XCreateAbortBackupVolume(t) ==
    /\ At(t, "x_create", "xc_abort_backup")
    /\ volumes' = [volumes EXCEPT ![thr[t].vol].status = "available"]
    /\ Step(t, [thr[t] EXCEPT !.pc = "xc_abort_backup2"])
    /\ UNCHANGED <<backups, quota, msgs, nthr, ncalls, ndup>>

\* lines 303-305: ... and backup_update(status: error)
XCreateAbortBackup(t) ==
    /\ At(t, "x_create", "xc_abort_backup2")
    /\ XFinalBackupUpdate(t, [backups[thr[t].bk] EXCEPT !.status = "error",
              !.fail_reason = "expected backup status"], "InvalidBackup")
    /\ UNCHANGED <<volumes, quota, msgs, nthr, ncalls, ndup>>

\* the driver raised and the volume is left as it is
XCreateFailLeavesVolume(t) ==
    /\ At(t, "x_create", "xc_fail_volume")
    /\ Step(t, [thr[t] EXCEPT !.pc = "xc_fail_backup"])
    /\ UNCHANGED <<volumes, backups, quota, msgs, nthr, ncalls, ndup>>

\* lines 323-326: the driver raised: volume_update(status: available)
XCreateFailVolume(t) ==
    /\ At(t, "x_create", "xc_fail_volume")
    /\ volumes' = [volumes EXCEPT ![thr[t].vol].status = "available"]
    /\ Step(t, [thr[t] EXCEPT !.pc = "xc_fail_backup"])
    /\ UNCHANGED <<backups, quota, msgs, nthr, ncalls, ndup>>

\* lines 327-329: ... and backup_update(status: error, fail_reason)
XCreateFailBackup(t) ==
    /\ At(t, "x_create", "xc_fail_backup")
    /\ XFinalBackupUpdate(t, [backups[thr[t].bk] EXCEPT !.status = "error",
              !.fail_reason = "driver error"], "DriverError")
    /\ UNCHANGED <<volumes, quota, msgs, nthr, ncalls, ndup>>

\* line 331: the driver returned: volume_update(status: available)
XCreateDoneVolume(t) ==
    /\ At(t, "x_create", "xc_done_volume")
    /\ volumes' = [volumes EXCEPT ![thr[t].vol].status = "available"]
    /\ Step(t, [thr[t] EXCEPT !.pc = "xc_done_backup"])
    /\ UNCHANGED <<backups, quota, msgs, nthr, ncalls, ndup>>

\* lines 332-341: backup_update(status: available, size, container)
XCreateDoneBackup(t) ==
    /\ At(t, "x_create", "xc_done_backup")
    /\ XFinalBackupUpdate(t, [backups[thr[t].bk] EXCEPT !.status = "available",
              !.size = thr[t].size, !.container = "c1",
              !.availability_zone = AvailabilityZone], "ok")
    /\ UNCHANGED <<volumes, quota, msgs, nthr, ncalls, ndup>>

---------------------------------------------------------------------------
(* API.delete: cinder/backup/api.py 69-99 *)

\* lines 72-75: backup_get and the status check
DeleteGetBackup(b) ==
    /\ backups[b].exists
    /\ NewCall(LET call == [IdleThread EXCEPT !.op = "delete", !.bk = b,
                               !.bstatus = backups[b].status]
               IN  IF ~Live(b)
                   THEN [call EXCEPT !.pc = "done", !.result = "BackupNotFound"]
                   ELSE IF backups[b].status \notin {"available", "error"}
                   THEN [call EXCEPT !.pc = "done", !.result = "InvalidBackup"]
                   ELSE [call EXCEPT !.pc = "d_children"])
    /\ UNCHANGED <<volumes, backups, quota, msgs, ndup>>

\* get_all(parent_id = b): the backups that name b as their parent
Children(b) == {c \in LiveBackups : backups[c].parent_id = b}

\* lines 89-94: incremental backups depend on this one: refuse
DeleteCheckChildren(t) ==
    /\ At(t, "delete", "d_children")
    /\ Step(t, IF Children(thr[t].bk) # {}
               THEN Finish(t, "InvalidBackup")
               ELSE [thr[t] EXCEPT !.pc = "d_update"])
    /\ UNCHANGED <<volumes, backups, quota, msgs, nthr, ncalls, ndup>>

\* line 96: backup_update(status: deleting)
DeleteSetDeleting(t) ==
    /\ At(t, "delete", "d_update")
    /\ IF Live(thr[t].bk)
       THEN /\ backups' = BackupUpdate(thr[t].bk,
                   [backups[thr[t].bk] EXCEPT !.status = "deleting"])
            /\ Step(t, [thr[t] EXCEPT !.pc = "d_cast"])
       ELSE /\ Step(t, Finish(t, "BackupNotFound"))
            /\ UNCHANGED backups
    /\ UNCHANGED <<volumes, quota, msgs, nthr, ncalls, ndup>>

\* lines 97-99: cast delete_backup to the backup's host
DeleteCast(t) ==
    /\ At(t, "delete", "d_cast")
    /\ msgs' = Cast(t, "delete_backup", thr[t].bk, None)
    /\ Step(t, [Finish(t, "ok") EXCEPT !.sent = TRUE])
    /\ UNCHANGED <<volumes, backups, quota, nthr, ncalls, ndup>>

---------------------------------------------------------------------------
(* BackupManager.delete_backup: cinder/backup/manager.py 616-698 *)

\* lines 618-633: require_driver_initialized (on failure backup_update
\* (status: error) and re-raise), then backup_get
XDeleteGetBackup(m, again, initialized) ==
    /\ m \in msgs /\ m.op = "delete_backup"
    /\ IF again THEN ndup < MaxDup /\ ndup' = ndup + 1 /\ UNCHANGED msgs
                ELSE msgs' = msgs \ {m} /\ UNCHANGED ndup
    /\ LET task == Task(m, "x_delete")
       IN  IF ~Live(m.bk)
           THEN /\ Spawn([task EXCEPT !.pc = "done",
                                      !.result = "BackupNotFound"])
                /\ UNCHANGED backups
           ELSE IF ~initialized
           THEN /\ Spawn([task EXCEPT !.pc = "done",
                                      !.result = "DriverNotInitialized"])
                /\ backups' = BackupUpdate(m.bk, [backups[m.bk] EXCEPT
                       !.status = "error",
                       !.fail_reason = "driver not initialized"])
           ELSE /\ Spawn([task EXCEPT !.pc = "xd_host",
                       !.bstatus = backups[m.bk].status,
                       !.bservice = backups[m.bk].service,
                       !.vol = backups[m.bk].volume_id])
                /\ UNCHANGED backups
    /\ UNCHANGED <<volumes, quota, ncalls>>

\* delete_backup without the driver-service check
XDeleteBranchAnyService(bstatus, bservice, driverOk) ==
    IF bstatus # "deleting" THEN "xd_abort"
    ELSE IF bservice # "" /\ ~driverOk THEN "xd_fail"
    ELSE "xd_destroy"

\* where delete_backup goes after its checks (636-669)
XDeleteBranch(bstatus, bservice, driverOk) ==
    IF bstatus # "deleting" THEN "xd_abort"
    ELSE IF bservice # "" /\ bservice # DriverName THEN "xd_mismatch"
    ELSE IF bservice # "" /\ ~driverOk THEN "xd_fail"
    ELSE "xd_destroy"

\* (mutant) the gigabytes given back are those of the backup
DeleteGigabytesOfBackup(b) == backups[b].size

\* size of the volume as delete_backup reads it (volume_get, line 674)
DeleteGigabytes(b) == volumes[backups[b].volume_id].size

\* lines 634-687: backup_update(host), the status and service checks on the
\* record read at 632, the driver's delete, and the reservation of the
\* negative deltas, whose failure is logged and swallowed
XDeleteSetHost(t, driverOk, reserveOk) ==
    /\ At(t, "x_delete", "xd_host")
    /\ Step(t, IF ~Live(thr[t].bk)
               THEN Finish(t, "BackupNotFound")
               ELSE LET next == XDeleteBranch(thr[t].bstatus, thr[t].bservice,
                                              driverOk)
                    IN  IF next = "xd_destroy" /\ reserveOk
                        THEN [thr[t] EXCEPT !.pc = next, !.resv = "open",
                                 !.resv_b = -1,
                                 !.resv_gb = -DeleteGigabytes(thr[t].bk)]
                        ELSE [thr[t] EXCEPT !.pc = next])
    /\ backups' = IF Live(thr[t].bk)
                  THEN BackupUpdate(thr[t].bk,
                           [backups[thr[t].bk] EXCEPT !.host = ThisHost])
                  ELSE backups
    /\ UNCHANGED <<volumes, quota, msgs, nthr, ncalls, ndup>>

\* lines 638-645: the backup is not deleting
XDeleteAbort(t) ==
    /\ At(t, "x_delete", "xd_abort")
    /\ XFinalBackupUpdate(t, [backups[thr[t].bk] EXCEPT !.status = "error",
              !.fail_reason = "expected backup status"], "InvalidBackup")
    /\ UNCHANGED <<volumes, quota, msgs, nthr, ncalls, ndup>>

\* lines 650-659: the backup was made by another backup service
XDeleteMismatch(t) ==
    /\ At(t, "x_delete", "xd_mismatch")
    /\ XFinalBackupUpdate(t, [backups[thr[t].bk] EXCEPT !.status = "error"],
                          "InvalidBackup")
    /\ UNCHANGED <<volumes, quota, msgs, nthr, ncalls, ndup>>

\* (mutant) the driver's delete raised and the reason is not recorded
XDeleteFailNoReason(t) ==
    /\ At(t, "x_delete", "xd_fail")
    /\ XFinalBackupUpdate(t, [backups[thr[t].bk] EXCEPT !.status = "error"],
                          "DriverError")
    /\ UNCHANGED <<volumes, quota, msgs, nthr, ncalls, ndup>>

\* lines 664-669: the driver's delete raised
XDeleteFail(t) ==
    /\ At(t, "x_delete", "xd_fail")
    /\ XFinalBackupUpdate(t, [backups[thr[t].bk] EXCEPT !.status = "error",
              !.fail_reason = "driver error"], "DriverError")
    /\ UNCHANGED <<volumes, quota, msgs, nthr, ncalls, ndup>>

\* line 690: backup_destroy (a record already destroyed stays destroyed)
XDeleteDestroy(t) ==
    /\ At(t, "x_delete", "xd_destroy")
    /\ backups' = [backups EXCEPT ![thr[t].bk].deleted = TRUE]
    /\ Step(t, IF thr[t].resv = "open"
               THEN [thr[t] EXCEPT !.pc = "xd_commit"]
               ELSE Finish(t, "ok"))
    /\ UNCHANGED <<volumes, quota, msgs, nthr, ncalls, ndup>>

\* lines 693-698: QUOTAS.commit of the negative reservation
XDeleteCommit(t) ==
    /\ At(t, "x_delete", "xd_commit")
    /\ quota' = QuotaCommit(thr[t].resv_b, thr[t].resv_gb)
    /\ Step(t, [Finish(t, "ok") EXCEPT !.resv = "committed"])
    /\ UNCHANGED <<volumes, backups, msgs, nthr, ncalls, ndup>>

---------------------------------------------------------------------------
(* The orchestrator and the executor of one host: Create, Delete and the    *)
(* tasks they cast.                                                         *)

NextCreate ==
    \/ \E v \in VolumeIds, inc \in BOOLEAN, per \in BOOLEAN,
          d \in UserDescriptions, up \in BOOLEAN :
          CreateGetVolume(v, inc, per, d, up)
    \/ \E t \in ThreadIds :
          \/ CreateReserve(t)
          \/ CreateResolveParent(t)
          \/ CreateSetBackingUp(t)
          \/ CreateInsert(t)
          \/ CreateInsertFails(t)
          \/ CreateCommit(t)
          \/ CreateCommitFails(t)
          \/ CreateRollback(t)
          \/ CreateCast(t)

NextXCreate ==
    \/ \E m \in msgs : XCreateGetBackup(m, FALSE)
    \/ \E t \in ThreadIds :
          \/ XCreateGetVolume(t)
          \/ \E ok \in BOOLEAN, mb \in 1..MaxBackupSizeMB :
                XCreateSetService(t, ok, mb)
          \/ XCreateAbortVolume(t)
          \/ XCreateFailVolume(t)
          \/ XCreateFailBackup(t)
          \/ XCreateDoneVolume(t)
          \/ XCreateDoneBackup(t)

NextDelete ==
    \/ \E b \in BackupIds : DeleteGetBackup(b)
    \/ \E t \in ThreadIds :
          \/ DeleteCheckChildren(t)
          \/ DeleteSetDeleting(t)
          \/ DeleteCast(t)

NextXDelete ==
    \/ \E m \in msgs, init \in BOOLEAN : XDeleteGetBackup(m, FALSE, init)
    \/ \E t \in ThreadIds :
          \/ \E ok \in BOOLEAN, rok \in BOOLEAN : XDeleteSetHost(t, ok, rok)
          \/ XDeleteAbort(t)
          \/ XDeleteFail(t)
          \/ XDeleteDestroy(t)
          \/ XDeleteCommit(t)

Next == NextCreate \/ NextXCreate \/ NextDelete \/ NextXDelete

Spec == Init /\ [][Next]_vars

---------------------------------------------------------------------------
(* Properties of Create and Delete, checked under Spec *)

CreateCalls == {t \in ThreadIds : thr[t].op = "create"}

QuotaErrors == {"VolumeBackupSizeExceedsAvailableQuota", "BackupLimitExceeded"}

\* C2: of the Create calls racing for one volume only one goes ahead: a
\* Create takes the volume to backing-up (line 241) only when the volume is
\* available at that moment.
C2_CreateTakesAvailableVolume ==
    [][\A t \in ThreadIds :
          (At(t, "create", "c_volume") /\ thr'[t].pc = "c_insert")
              => volumes[thr[t].vol].status = "available"]_vars

\* C4: when a Create call has returned or raised, its quota reservation is
\* no longer open: it was committed or rolled back.
C4_NoReservationLeftOpen ==
    \A t \in CreateCalls : thr[t].pc = "done" => thr[t].resv # "open"

\* C5: the step of Create at which the quota reservation fails ends the
\* call with one of the two typed errors, with no Backup record of its own
\* and nothing cast, and changes no volume, no backup, no message and no
\* quota usage.
C5_QuotaFailureMutatesNothing ==
    [][\A t \in ThreadIds :
          (At(t, "create", "c_reserve") /\ thr'[t].pc = "done")
              => /\ thr'[t].result \in QuotaErrors
                 /\ thr'[t].bk = None
                 /\ ~thr'[t].sent
                 /\ thr'[t].resv = "none"
                 /\ UNCHANGED <<volumes, backups, msgs, quota>>]_vars

\* C5 witness: a Create call failed on quota and its volume is available
C5_Witness ==
    \E t \in CreateCalls :
        /\ thr[t].pc = "done" /\ thr[t].result \in QuotaErrors
        /\ volumes[thr[t].vol].status = "available"

\* C6: the step of Create at which backup_create fails leaves no record of
\* the call, rolls the reservation back, casts nothing, and raises the
\* insertion error itself to the caller.
C6_InsertFailureReraisesOriginal ==
    [][\A t \in ThreadIds :
          (At(t, "create", "c_insert") /\ thr'[t].pc = "done")
              => /\ thr'[t].result = "DBError"
                 /\ thr'[t].bk = None
                 /\ thr'[t].resv = "rolledback"
                 /\ ~thr'[t].sent
                 /\ UNCHANGED <<backups, msgs>>]_vars

\* the backups reached from b by following parent_id, at most n links
RECURSIVE AncestorsWithin(_, _)
AncestorsWithin(b, n) ==
    IF n = 0 \/ backups[b].parent_id = None THEN {}
    ELSE {backups[b].parent_id}
             \cup AncestorsWithin(backups[b].parent_id, n - 1)

Ancestors(b) == AncestorsWithin(b, MaxBackups)

\* C7: a backup's parent_id is null, or names another backup of the same
\* volume, inserted earlier, whose status was available when Create chose
\* it; no backup is its own ancestor.
C7_ParentInvariant ==
    \A b \in BackupIds :
        (backups[b].exists /\ backups[b].parent_id # None) =>
            /\ backups[b].parent_id \in BackupIds
            /\ backups[b].parent_id # b
            /\ backups[backups[b].parent_id].exists
            /\ backups[backups[b].parent_id].volume_id = backups[b].volume_id
            /\ backups[b].parent_id < b
            /\ backups[b].parent_status_at_select = "available"
            /\ b \notin Ancestors(b)

\* C7 witness: an incremental backup with a parent exists
C7_Witness ==
    \E b \in BackupIds : backups[b].exists /\ backups[b].parent_id # None

\* C8: no backup that is not destroyed names as its parent a backup that is
\* deleting or destroyed.
C8_ParentNeverDeleted ==
    \A b \in LiveBackups :
        backups[b].parent_id # None =>
            /\ Live(backups[b].parent_id)
            /\ backups[backups[b].parent_id].status # "deleting"

\* C9: for one backup, the executor commits the negative quota deltas at
\* most once, however many delete_backup tasks run for it.
C9_DeleteDecrementsOnce ==
    \A b \in BackupIds :
        Cardinality({t \in ThreadIds : /\ thr[t].op = "x_delete"
                                       /\ thr[t].bk = b
                                       /\ thr[t].resv = "committed"}) <= 1

---------------------------------------------------------------------------
(* API.restore onto a given volume: cinder/backup/api.py 281-363 *)

\* lines 284-292: backup_get and the status check
RestoreGetBackup(b, v) ==
    /\ backups[b].exists
    /\ NewCall(LET call == [IdleThread EXCEPT !.op = "restore", !.bk = b,
                               !.vol = v, !.size = backups[b].size]
               IN  IF ~Live(b)
                   THEN [call EXCEPT !.pc = "done", !.result = "BackupNotFound"]
                   ELSE IF backups[b].status # "available"
                   THEN [call EXCEPT !.pc = "done", !.result = "InvalidBackup"]
                   ELSE [call EXCEPT !.pc = "r_volume"])
    /\ UNCHANGED <<volumes, backups, quota, msgs, ndup>>

\* the target volume passes the checks of lines 315-328
RestoreAdmits(vstatus, poweredOff) ==
    \/ vstatus = "available"
    \/ vstatus = "in-use" /\ poweredOff

\* lines 313-328: volume_get, the status check and, for an in-use volume,
\* the power state of the instances it is attached to
RestoreGetVolume(t, poweredOff) ==
    /\ At(t, "restore", "r_volume")
    /\ Step(t, IF RestoreAdmits(volumes[thr[t].vol].status, poweredOff)
               THEN [thr[t] EXCEPT !.vstatus = volumes[thr[t].vol].status,
                                   !.pc = "r_stash"]
               ELSE Finish(t, "InvalidVolume"))
    /\ UNCHANGED <<volumes, backups, quota, msgs, nthr, ncalls, ndup>>

\* backup size in MB against volume size in GB (line 337)
TooSmall(sizeMB, sizeGB) == sizeMB > sizeGB * 1024

\* lines 330-341: volume_update(display_description: the status read), then
\* the capacity check
RestoreStashStatus(t) ==
    /\ At(t, "restore", "r_stash")
    /\ volumes' = [volumes EXCEPT
           ![thr[t].vol].display_description = thr[t].vstatus]
    /\ Step(t, IF TooSmall(thr[t].size, volumes[thr[t].vol].size)
               THEN Finish(t, "InvalidVolume")
               ELSE [thr[t] EXCEPT !.pc = "r_backup"])
    /\ UNCHANGED <<backups, quota, msgs, nthr, ncalls, ndup>>

\* line 350: backup_update(status: restoring)
RestoreSetRestoring(t) ==
    /\ At(t, "restore", "r_backup")
    /\ IF Live(thr[t].bk)
       THEN /\ backups' = BackupUpdate(thr[t].bk,
                   [backups[thr[t].bk] EXCEPT !.status = "restoring"])
            /\ Step(t, [thr[t] EXCEPT !.pc = "r_status"])
       ELSE /\ Step(t, Finish(t, "BackupNotFound"))
            /\ UNCHANGED backups
    /\ UNCHANGED <<volumes, quota, msgs, nthr, ncalls, ndup>>

\* lines 351-352: volume_update(status: restoring-backup)
RestoreSetVolume(t) ==
    /\ At(t, "restore", "r_status")
    /\ volumes' = [volumes EXCEPT ![thr[t].vol].status = "restoring-backup"]
    /\ Step(t, [thr[t] EXCEPT !.pc = "r_cast"])
    /\ UNCHANGED <<backups, quota, msgs, nthr, ncalls, ndup>>

\* lines 354-363: cast restore_backup to the volume's host
RestoreCast(t) ==
    /\ At(t, "restore", "r_cast")
    /\ msgs' = Cast(t, "restore_backup", thr[t].bk, thr[t].vol)
    /\ Step(t, [Finish(t, "ok") EXCEPT !.sent = TRUE,
                                       !.vstatus = thr[t].vstatus])
    /\ UNCHANGED <<volumes, backups, quota, nthr, ncalls, ndup>>

---------------------------------------------------------------------------
(* BackupManager.restore_backup: cinder/backup/manager.py 343-614 *)

\* line 349: backup_get
XRestoreGetBackup(m, again) ==
    /\ m \in msgs /\ m.op = "restore_backup"
    /\ IF again THEN ndup < MaxDup /\ ndup' = ndup + 1 /\ UNCHANGED msgs
                ELSE msgs' = msgs \ {m} /\ UNCHANGED ndup
    /\ Spawn(IF Live(m.bk)
             THEN [Task(m, "x_restore") EXCEPT !.pc = "xr_volume",
                       !.bstatus = backups[m.bk].status,
                       !.bservice = backups[m.bk].service]
             ELSE [Task(m, "x_restore") EXCEPT !.pc = "done",
                       !.result = "BackupNotFound"])
    /\ UNCHANGED <<volumes, backups, quota, ncalls>>

\* line 350: volume_get: the status and the stashed status are read together
XRestoreGetVolume(t) ==
    /\ At(t, "x_restore", "xr_volume")
    /\ Step(t, [thr[t] EXCEPT
           !.vstatus = volumes[thr[t].vol].status,
           !.vdesc = volumes[thr[t].vol].display_description,
           !.pc = "xr_host"])
    /\ UNCHANGED <<volumes, backups, quota, msgs, nthr, ncalls, ndup>>

\* where restore_backup goes after its checks (358-473)
XRestoreBranch(vstatus, bstatus, bservice, driverOk) ==
    IF vstatus # "restoring-backup" THEN "xr_abort_volume"
    ELSE IF bstatus # "restoring" THEN "xr_abort_backup"
    ELSE IF bservice # DriverName THEN "xr_mismatch"
    ELSE IF ~driverOk THEN "xr_fail"
    ELSE "xr_done_status"

\* lines 356-473: backup_update(host), the checks on the records read at 349
\* and 350, and the driver's restore_backup, which returns or raises
XRestoreSetHost(t, driverOk) ==
    /\ At(t, "x_restore", "xr_host")
    /\ Step(t, IF Live(thr[t].bk)
               THEN [thr[t] EXCEPT !.pc = XRestoreBranch(thr[t].vstatus,
                        thr[t].bstatus, thr[t].bservice, driverOk)]
               ELSE Finish(t, "BackupNotFound"))
    /\ backups' = IF Live(thr[t].bk)
                  THEN BackupUpdate(thr[t].bk,
                           [backups[thr[t].bk] EXCEPT !.host = ThisHost])
                  ELSE backups
    /\ UNCHANGED <<volumes, quota, msgs, nthr, ncalls, ndup>>

\* a backup_update in the middle of a task
XBackupUpdate(t, rec, pc) ==
    IF Live(thr[t].bk)
    THEN /\ backups' = BackupUpdate(thr[t].bk, rec)
         /\ Step(t, [thr[t] EXCEPT !.pc = pc])
    ELSE /\ Step(t, Finish(t, "BackupNotFound"))
         /\ UNCHANGED backups

\* a volume_update that ends the task
XFinalVolumeUpdate(t, status, res) ==
    /\ volumes' = [volumes EXCEPT ![thr[t].vol].status = status]
    /\ Step(t, Finish(t, res))

\* line 365: the volume is not restoring-backup: backup_update(available)
XRestoreAbortVolumeBackup(t) ==
    /\ At(t, "x_restore", "xr_abort_volume")
    /\ XBackupUpdate(t, [backups[thr[t].bk] EXCEPT !.status = "available"],
                     "xr_abort_volume2")
    /\ UNCHANGED <<volumes, quota, msgs, nthr, ncalls, ndup>>

\* lines 369-370: ... and volume_update(status: error)
XRestoreAbortVolume(t) ==
    /\ At(t, "x_restore", "xr_abort_volume2")
    /\ XFinalVolumeUpdate(t, "error", "InvalidVolume")
    /\ UNCHANGED <<backups, quota, msgs, nthr, ncalls, ndup>>

\* lines 379-380: the backup is not restoring: backup_update(error)
XRestoreAbortBackup(t) ==
    /\ At(t, "x_restore", "xr_abort_backup")
    /\ XBackupUpdate(t, [backups[thr[t].bk] EXCEPT !.status = "error",
              !.fail_reason = "expected backup status"], "xr_abort_backup2")
    /\ UNCHANGED <<volumes, quota, msgs, nthr, ncalls, ndup>>

\* lines 381-383: ... and volume_update(status: error_restoring)
XRestoreAbortBackupVolume(t) ==
    /\ At(t, "x_restore", "xr_abort_backup2")
    /\ XFinalVolumeUpdate(t, "error_restoring", "InvalidBackup")
    /\ UNCHANGED <<backups, quota, msgs, nthr, ncalls, ndup>>

\* line 405: the backup was made by another service: backup_update(available)
XRestoreMismatchBackup(t) ==
    /\ At(t, "x_restore", "xr_mismatch")
    /\ XBackupUpdate(t, [backups[thr[t].bk] EXCEPT !.status = "available"],
                     "xr_mismatch2")
    /\ UNCHANGED <<volumes, quota, msgs, nthr, ncalls, ndup>>

\* lines 406-408: ... and volume_update(status: error_restoring)
XRestoreMismatchVolume(t) ==
    /\ At(t, "x_restore", "xr_mismatch2")
    /\ XFinalVolumeUpdate(t, "error_restoring", "InvalidBackup")
    /\ UNCHANGED <<backups, quota, msgs, nthr, ncalls, ndup>>

\* lines 473-507: the driver raised: volume_update(status: error_restoring)
XRestoreFailVolume(t) ==
    /\ At(t, "x_restore", "xr_fail")
    /\ volumes' = [volumes EXCEPT ![thr[t].vol].status = "error_restoring"]
    /\ Step(t, [thr[t] EXCEPT !.pc = "xr_fail2"])
    /\ UNCHANGED <<backups, quota, msgs, nthr, ncalls, ndup>>

\* the driver raised and the backup is marked failed
XRestoreFailSpoilsBackup(t) ==
    /\ At(t, "x_restore", "xr_fail2")
    /\ XFinalBackupUpdate(t, [backups[thr[t].bk] EXCEPT !.status = "error"],
                          "DriverError")
    /\ UNCHANGED <<volumes, quota, msgs, nthr, ncalls, ndup>>

\* lines 508-509: ... and backup_update(status: available)
XRestoreFailBackup(t) ==
    /\ At(t, "x_restore", "xr_fail2")
    /\ XFinalBackupUpdate(t, [backups[thr[t].bk] EXCEPT !.status = "available"],
                          "DriverError")
    /\ UNCHANGED <<volumes, quota, msgs, nthr, ncalls, ndup>>

\* the status written back at line 572: the display_description read at 350
RestoredStatus(vdesc) == vdesc

\* lines 572-573: volume_update(status: volume['display_description'])
XRestoreDoneStatus(t) ==
    /\ At(t, "x_restore", "xr_done_status")
    /\ volumes' = [volumes EXCEPT
           ![thr[t].vol].status = RestoredStatus(thr[t].vdesc)]
    /\ Step(t, [thr[t] EXCEPT !.pc = "xr_done_stash"])
    /\ UNCHANGED <<backups, quota, msgs, nthr, ncalls, ndup>>

\* lines 574-575: volume_update(display_description: "")
XRestoreDoneStash(t) ==
    /\ At(t, "x_restore", "xr_done_stash")
    /\ volumes' = [volumes EXCEPT ![thr[t].vol].display_description = ""]
    /\ Step(t, [thr[t] EXCEPT !.pc = "xr_done_backup"])
    /\ UNCHANGED <<backups, quota, msgs, nthr, ncalls, ndup>>

\* lines 576-577: backup = backup_update(status: available); the record
\* returned carries the description as it is now
XRestoreDoneBackup(t) ==
    /\ At(t, "x_restore", "xr_done_backup")
    /\ IF Live(thr[t].bk)
       THEN /\ backups' = BackupUpdate(thr[t].bk,
                   [backups[thr[t].bk] EXCEPT !.status = "available"])
            /\ Step(t, [thr[t] EXCEPT !.desc = backups[thr[t].bk].desc,
                                      !.pc = "xr_list"])
       ELSE /\ Step(t, Finish(t, "BackupNotFound"))
            /\ UNCHANGED backups
    /\ UNCHANGED <<volumes, quota, msgs, nthr, ncalls, ndup>>

\* the backups of volume v whose description ends with the active marker,
\* in id order, each with its description as listed
RECURSIVE MarkedFrom(_, _)
MarkedFrom(v, b) ==
    IF b > MaxBackups THEN <<>>
    ELSE (IF Live(b) /\ backups[b].volume_id = v
             /\ EndsWithMagic(backups[b].desc)
          THEN <<[id |-> b, desc |-> backups[b].desc]>> ELSE <<>>)
         \o MarkedFrom(v, b + 1)

\* lines 579-595: backup_get_all(volume_id = the target volume)
XRestoreListBackups(t) ==
    /\ At(t, "x_restore", "xr_list")
    /\ Step(t, [thr[t] EXCEPT !.todo = MarkedFrom(thr[t].vol, 1),
           !.pc = IF MarkedFrom(thr[t].vol, 1) = <<>>
                  THEN "xr_mark" ELSE "xr_strip"])
    /\ UNCHANGED <<volumes, backups, quota, msgs, nthr, ncalls, ndup>>

\* description[:-6]
StripMagic(desc) == SubSeq(desc, 1, Len(desc) - 1)

\* lines 596-597: backup_update(display_description: description[:-6]) of
\* the next marked backup of the list
XRestoreStripMarker(t) ==
    /\ At(t, "x_restore", "xr_strip")
    /\ LET e == Head(thr[t].todo)
           rest == Tail(thr[t].todo)
       IN  IF Live(e.id)
           THEN /\ backups' = BackupUpdate(e.id,
                       [backups[e.id] EXCEPT !.desc = StripMagic(e.desc)])
                /\ Step(t, [thr[t] EXCEPT !.todo = rest,
                       !.pc = IF rest = <<>> THEN "xr_mark" ELSE "xr_strip"])
           ELSE /\ Step(t, Finish(t, "BackupNotFound"))
                /\ UNCHANGED backups
    /\ UNCHANGED <<volumes, quota, msgs, nthr, ncalls, ndup>>

\* lines 599-614: backup_update(display_description: description + MAGICSTR)
\* with the description returned at line 576
XRestoreSetMarker(t) ==
    /\ At(t, "x_restore", "xr_mark")
    /\ XFinalBackupUpdate(t, [backups[thr[t].bk] EXCEPT
              !.desc = thr[t].desc \o MAGICSTR], "ok")
    /\ UNCHANGED <<volumes, quota, msgs, nthr, ncalls, ndup>>

---------------------------------------------------------------------------
(* Restore alone: calls of API.restore on the backups of one volume and the *)
(* restore_backup tasks they cast                                          *)

NextRestore ==
    \/ \E b \in BackupIds, v \in VolumeIds : RestoreGetBackup(b, v)
    \/ \E t \in ThreadIds :
          \/ \E off \in BOOLEAN : RestoreGetVolume(t, off)
          \/ RestoreStashStatus(t)
          \/ RestoreSetRestoring(t)
          \/ RestoreSetVolume(t)
          \/ RestoreCast(t)

NextXRestoreUnmarked ==
    \/ \E m \in msgs : XRestoreGetBackup(m, FALSE)
    \/ \E t \in ThreadIds :
          \/ XRestoreGetVolume(t)
          \/ \E ok \in BOOLEAN : XRestoreSetHost(t, ok)
          \/ XRestoreAbortVolumeBackup(t)
          \/ XRestoreAbortVolume(t)
          \/ XRestoreAbortBackup(t)
          \/ XRestoreAbortBackupVolume(t)
          \/ XRestoreFailVolume(t)
          \/ XRestoreFailBackup(t)
          \/ XRestoreDoneStatus(t)
          \/ XRestoreDoneStash(t)
          \/ XRestoreDoneBackup(t)
          \/ XRestoreListBackups(t)
          \/ XRestoreSetMarker(t)

NextXRestore ==
    \/ NextXRestoreUnmarked
    \/ \E t \in ThreadIds : XRestoreStripMarker(t)

\* the least backup size, in MB, that a volume of sizeGB cannot take
OversizeMB(sizeGB) == sizeGB * 1024 + 1

\* a volume, free or attached, with one or two finished backups, the
\* second of which may have been taken when the volume was larger
InitRestore ==
    /\ \E st \in {"available", "in-use"} :
          volumes = [v \in VolumeIds |-> [InitVolume(v) EXCEPT !.status = st]]
    /\ \E n \in {1, 2}, mb \in {MaxBackupSizeMB, OversizeMB(InitVolume(1).size)} :
          /\ n = 1 => mb = MaxBackupSizeMB
          /\ backups = [b \in BackupIds |->
                 IF b = 1 THEN AvailableBackup(1, <<"d">>)
                 ELSE IF b <= n
                 THEN [AvailableBackup(1, <<"d">>) EXCEPT !.size = mb]
                 ELSE NoBackup]
          /\ quota = QuotaAfter(n)
    /\ InitIdle

SpecRestore == InitRestore /\ [][NextRestore \/ NextXRestore]_vars

\* C1: every volume's status is one of available, backing-up,
\* restoring-backup, error, error_restoring, in-use, creating; in particular
\* the status restore_backup writes back from the stash is one of them.
C1_VolumeStatusIsKnown ==
    \A v \in VolumeIds : volumes[v].status \in VolumeStatuses

---------------------------------------------------------------------------
(* The backup driver's export_record and import_record: the record is      *)
(* serialised to an opaque string of key/value pairs and parsed back.      *)

\* exportRecord(handle) -> blob
EncodeRecord(rec) ==
    << <<"volume_id", rec.volume_id>>, <<"status", rec.status>>,
       <<"display_name", rec.display_name>>,
       <<"display_description", rec.desc>>,
       <<"container", rec.container>>, <<"size", rec.size>>,
       <<"service_metadata", rec.service_metadata>>,
       <<"service", rec.service>>, <<"object_count", rec.object_count>> >>

BlobKeys(url) == {url[i][1] : i \in DOMAIN url}

\* importRecord(blob) -> the options parsed out of the blob, by key
DecodeRecord(url) ==
    [k \in BlobKeys(url) |->
        url[CHOOSE i \in DOMAIN url : url[i][1] = k][2]]

\* a blob written by a release that does not record `key`
RECURSIVE WithoutKey(_, _)
WithoutKey(url, key) ==
    IF url = <<>> THEN <<>>
    ELSE (IF Head(url)[1] = key THEN <<>> ELSE <<Head(url)>>)
         \o WithoutKey(Tail(url), key)

---------------------------------------------------------------------------
(* API.export_record (cinder/backup/api.py 380-407) and                    *)
(* BackupManager.export_record (cinder/backup/manager.py 710-760)          *)

\* api.py 391-395: backup_get and the status check
ExportGetBackup(b) ==
    /\ backups[b].exists
    /\ NewCall(LET call == [IdleThread EXCEPT !.op = "export", !.bk = b]
               IN  IF ~Live(b)
                   THEN [call EXCEPT !.pc = "done", !.result = "BackupNotFound"]
                   ELSE IF backups[b].status # "available"
                   THEN [call EXCEPT !.pc = "done", !.result = "InvalidBackup"]
                   ELSE [call EXCEPT !.pc = "e_call"])
    /\ UNCHANGED <<volumes, backups, quota, msgs, ndup>>

\* what export_record on the backup's host returns or raises
\* (manager.py 725-760)
ExportRecord(rec, driverOk) ==
    IF rec.status # "available" THEN "InvalidBackup"
    ELSE IF rec.service # HostDrivers[rec.host] THEN "InvalidBackup"
    ELSE IF ~driverOk THEN "InvalidBackup"
    ELSE "ok"

\* api.py 402-407: the call to the backup's host, which reads the record,
\* checks it and asks the driver for the blob
ExportCall(t, driverOk) ==
    /\ At(t, "export", "e_call")
    /\ Step(t, IF ~Live(thr[t].bk) THEN Finish(t, "BackupNotFound")
               ELSE LET rec == backups[thr[t].bk]
                        res == ExportRecord(rec, driverOk)
                    IN  IF res = "ok"
                        THEN [Finish(t, "ok") EXCEPT
                                 !.service = rec.service,
                                 !.blob = EncodeRecord(rec)]
                        ELSE Finish(t, res))
    /\ UNCHANGED <<volumes, backups, quota, msgs, nthr, ncalls, ndup>>

---------------------------------------------------------------------------
(* API.import_record: cinder/backup/api.py 409-443 *)

\* the placeholder of lines 430-434; its volume id is no volume's
ImportPlaceholder ==
    [NoBackup EXCEPT !.exists = TRUE, !.status = "creating",
                     !.volume_id = None]

\* lines 426-434: list the backup hosts and insert the placeholder
ImportRecord(service, url, hosts) ==
    /\ NextBackupId \in BackupIds
    /\ NewCall(LET call == [IdleThread EXCEPT !.op = "import",
                               !.service = service, !.blob = url]
               IN  IF Len(hosts) = 0
                   THEN [call EXCEPT !.pc = "done",
                                     !.result = "ServiceNotFound"]
                   ELSE [call EXCEPT !.pc = "i_cast", !.bk = NextBackupId,
                                     !.hosts = hosts])
    /\ backups' = IF Len(hosts) = 0 THEN backups
                  ELSE [backups EXCEPT ![NextBackupId] = ImportPlaceholder]
    /\ UNCHANGED <<volumes, quota, msgs, ndup>>

\* the last of the list is read and the list is left as it was
PopLeavesList(hosts) == [host |-> hosts[Len(hosts)], rest |-> hosts]

\* hosts.pop(): the last of the list and the list without it
Pop(hosts) == [host |-> hosts[Len(hosts)],
               rest |-> SubSeq(hosts, 1, Len(hosts) - 1)]

\* lines 435-443: cast import_record to the host popped off the list
ImportCast(t) ==
    /\ At(t, "import", "i_cast")
    /\ msgs' = msgs \cup
           {[Message(t, "import_record", thr[t].bk, None) EXCEPT
                !.host = Pop(thr[t].hosts).host, !.service = thr[t].service,
                !.url = thr[t].blob, !.hosts = Pop(thr[t].hosts).rest]}
    /\ Step(t, [Finish(t, "ok") EXCEPT !.sent = TRUE,
                                       !.hosts = thr[t].hosts])
    /\ UNCHANGED <<volumes, backups, quota, nthr, ncalls, ndup>>

---------------------------------------------------------------------------
(* BackupManager.import_record: cinder/backup/manager.py 762-858 *)

required_import_options ==
    <<"display_name", "display_description", "container", "size",
      "service_metadata", "service", "object_count">>

\* the first required option the blob lacks, or "" (lines 826-834)
MissingOption(options) ==
    LET missing == {i \in DOMAIN required_import_options :
                       required_import_options[i] \notin DOMAIN options}
    IN  IF missing = {} THEN ""
        ELSE required_import_options[
                 CHOOSE i \in missing : \A j \in missing : i <= j]

\* nothing is copied: the record keeps the placeholder's values
ImportedRecordCopiesNothing(rec, options, host) ==
    [rec EXCEPT !.status = "available", !.host = host,
                !.availability_zone = AvailabilityZone,
                !.service = HostDrivers[host]]

\* lines 822-838: backup_update of status, service, availability zone and
\* host, then of every required option, in the order of the list
ImportedRecord(rec, options, host) ==
    [rec EXCEPT !.status = "available", !.host = host,
                !.availability_zone = AvailabilityZone,
                !.display_name = options["display_name"],
                !.desc = options["display_description"],
                !.container = options["container"],
                !.size = options["size"],
                !.service_metadata = options["service_metadata"],
                !.service = options["service"],
                !.object_count = options["object_count"]]

\* what import_record does with the message on host m.host
ImportBranch(m, driverOk, verifyOk) ==
    IF m.service # HostDrivers[m.host]
    THEN (IF Len(m.hosts) > 0 THEN "forward" ELSE "ServiceNotFound")
    ELSE IF ~driverOk THEN "InvalidBackup"
    ELSE IF MissingOption(DecodeRecord(m.url)) # "" THEN "InvalidBackup"
    ELSE IF verifyOk THEN "ok" ELSE "xi_unverified"

\* lines 780-796: another driver is asked for and hosts are left: cast to
\* the next host of the list
XImportForward(m) ==
    /\ m \in msgs /\ m.op = "import_record"
    /\ ImportBranch(m, TRUE, TRUE) = "forward"
    /\ msgs' = (msgs \ {m}) \cup
           {[m EXCEPT !.host = Pop(m.hosts).host,
                      !.hosts = Pop(m.hosts).rest]}
    /\ Spawn([Task(m, "x_import") EXCEPT !.pc = "done",
                                         !.service = m.service,
                                         !.result = "forwarded"])
    /\ UNCHANGED <<volumes, backups, quota, ncalls, ndup>>

\* lines 797-855: no host left (backup_update error), or the driver parses
\* the blob and the record is updated from it, or to error when the driver
\* raises or an option is missing; then the driver verifies the backup
XImportRecord(m, driverOk, verifyOk) ==
    /\ m \in msgs /\ m.op = "import_record"
    /\ msgs' = msgs \ {m}
    /\ LET branch == ImportBranch(m, driverOk, verifyOk)
           task == [Task(m, "x_import") EXCEPT !.blob = m.url,
                                               !.service = m.service]
       IN  /\ branch # "forward"
           /\ IF ~Live(m.bk)
              THEN /\ Spawn([task EXCEPT !.pc = "done",
                                         !.result = "BackupNotFound"])
                   /\ UNCHANGED backups
              ELSE IF branch \in {"ServiceNotFound", "InvalidBackup"}
              THEN /\ backups' = BackupUpdate(m.bk,
                          [backups[m.bk] EXCEPT !.status = "error",
                                                !.fail_reason = branch])
                   /\ Spawn([task EXCEPT !.pc = "done", !.result = branch])
              ELSE /\ backups' = BackupUpdate(m.bk,
                          ImportedRecord(backups[m.bk], DecodeRecord(m.url),
                                         m.host))
                   /\ Spawn(IF branch = "ok"
                            THEN [task EXCEPT !.pc = "done", !.result = "ok"]
                            ELSE [task EXCEPT !.pc = branch])
    /\ UNCHANGED <<volumes, quota, ncalls, ndup>>

\* lines 850-855: verify raised InvalidBackup: backup_update(error)
XImportVerifyFails(t) ==
    /\ At(t, "x_import", "xi_unverified")
    /\ XFinalBackupUpdate(t, [backups[thr[t].bk] EXCEPT !.status = "error",
              !.fail_reason = "verify"], "InvalidBackup")
    /\ UNCHANGED <<volumes, quota, msgs, nthr, ncalls, ndup>>

---------------------------------------------------------------------------
(* Export and Import: a backup is exported and the blob, or a blob lacking *)
(* one option, is imported through the hosts that are up                   *)

ExportCalls == {t \in ThreadIds : thr[t].op = "export" /\ thr[t].result = "ok"}

\* a blob exported by another deployment, whose backups are made by the
\* second driver
ForeignBlob ==
    EncodeRecord([AvailableBackup(1, <<"d">>) EXCEPT
                     !.service = HostDrivers[2], !.container = "c2"])

\* the blobs a caller holds, whole or from a release without object counts
ImportableBlobs ==
    LET held == {thr[t].blob : t \in ExportCalls} \cup {ForeignBlob}
    IN  held \cup {WithoutKey(url, "object_count") : url \in held}

\* the services a caller may name and the host lists found up
ImportServices == {HostDrivers[1], HostDrivers[2], "svc3"}

HostLists == {<<>>, <<1>>, <<1, 2>>}

NextExport ==
    \/ \E b \in BackupIds : ExportGetBackup(b)
    \/ \E t \in ThreadIds, ok \in BOOLEAN : ExportCall(t, ok)

NextImport ==
    \/ \E service \in ImportServices, url \in ImportableBlobs,
          hosts \in HostLists : ImportRecord(service, url, hosts)
    \/ \E t \in ThreadIds : ImportCast(t)

NextXImport ==
    \/ \E m \in msgs : XImportForward(m)
    \/ \E m \in msgs, ok \in BOOLEAN, verified \in BOOLEAN :
          XImportRecord(m, ok, verified)
    \/ \E t \in ThreadIds : XImportVerifyFails(t)

\* one backup of the volume, finished or failed
InitImport ==
    /\ volumes = [v \in VolumeIds |-> InitVolume(v)]
    /\ \E st \in {"available", "error"}, desc \in UserDescriptions :
          backups = [b \in BackupIds |->
              IF b = 1 THEN [AvailableBackup(1, desc) EXCEPT !.status = st]
              ELSE NoBackup]
    /\ quota = QuotaAfter(1)
    /\ InitIdle

SpecImport == InitImport /\ [][NextExport \/ NextImport \/ NextXImport]_vars

\* nothing is running and nothing is in flight
Quiescent ==
    /\ msgs = {}
    /\ \A t \in ThreadIds : ~Running(t)

\* C3: the committed 'backups' count of the project equals the number of
\* its Backup records that have not been destroyed, whenever no operation
\* is in flight.
C3_QuotaCountsBackups ==
    Quiescent => quota.in_use_b = Cardinality(LiveBackups)

\* the import tasks that succeeded, each paired with the export call whose
\* blob it was given
RoundTrips ==
    {p \in ExportCalls \X ThreadIds :
        /\ thr[p[2]].op = "x_import" /\ thr[p[2]].result = "ok"
        /\ thr[p[2]].blob = thr[p[1]].blob}

\* C10: a backup exported while available and imported on a host whose
\* driver matches gives a new available Backup with the display name,
\* description, container, size and object count of the exported record.
C10_ImportRoundTrip ==
    \A p \in RoundTrips :
        LET old == backups[thr[p[1]].bk]
            new == backups[thr[p[2]].bk]
        IN  /\ thr[p[2]].bk # thr[p[1]].bk
            /\ new.status = "available"
            /\ new.display_name = old.display_name
            /\ new.desc = old.desc
            /\ new.container = old.container
            /\ new.size = old.size
            /\ new.object_count = old.object_count

\* an import of an exported backup that has a description succeeded
C10_Witness ==
    \E p \in RoundTrips :
        /\ backups[thr[p[1]].bk].desc # <<>>
        /\ backups[thr[p[1]].bk].object_count > 0
        /\ backups[thr[p[2]].bk].status = "available"

---------------------------------------------------------------------------
(* Properties of the import's walk through the hosts, under SpecImport *)

ImportCalls == {t \in ThreadIds : thr[t].op = "import"}

\* the import_record tasks started for the placeholder of call c
ImportTasks(c) ==
    {t \in ThreadIds : thr[t].op = "x_import" /\ thr[t].bk = thr[c].bk}

\* the call has cast and nothing of its import is running or in flight
ImportSettled(c) ==
    /\ thr[c].sent
    /\ \A m \in msgs : m.bk # thr[c].bk
    /\ \A t \in ImportTasks(c) : ~Running(t)

SeqRange(seq) == {seq[i] : i \in DOMAIN seq}

\* C11: the import visits each listed host at most once, so the chain has
\* at most as many hops as there are hosts; it ends either on a host whose
\* driver is the declared service, which performs the import, or with the
\* list exhausted and the placeholder in error with a reason; and a call
\* that finds no host fails with ServiceNotFound and creates no record.
C11_ImportFailover ==
    /\ \A c \in ImportCalls :
          IF thr[c].bk = None
          THEN thr[c].result = "ServiceNotFound"
          ELSE /\ \A t \in ImportTasks(c) :
                     /\ thr[t].host \in SeqRange(thr[c].hosts) \/ ~thr[c].sent
                     /\ \A u \in ImportTasks(c) :
                           u # t => thr[u].host # thr[t].host
               /\ ImportSettled(c) =>
                     \E t \in ImportTasks(c) :
                        /\ \A u \in ImportTasks(c) \ {t} :
                              /\ thr[u].result = "forwarded"
                              /\ HostDrivers[thr[u].host] # thr[c].service
                        /\ \/ /\ HostDrivers[thr[t].host] = thr[c].service
                              /\ thr[t].result \in {"ok", "InvalidBackup"}
                           \/ /\ thr[t].result = "ServiceNotFound"
                              /\ HostDrivers[thr[t].host] # thr[c].service
                              /\ Cardinality(ImportTasks(c)) = Len(thr[c].hosts)
                              /\ backups[thr[c].bk].status = "error"
                              /\ backups[thr[c].bk].fail_reason # ""
    /\ Cardinality({b \in BackupIds : backups[b].exists})
          = 1 + Cardinality({c \in ImportCalls : thr[c].bk # None})

\* an import was forwarded by the second host and done by the first, and
\* another ran out of hosts
C11_Witness ==
    /\ \E c \in ImportCalls, t, u \in ThreadIds :
          /\ ImportSettled(c) /\ {t, u} \subseteq ImportTasks(c)
          /\ thr[u].result = "forwarded" /\ thr[t].result = "ok"
    /\ \E c \in ImportCalls, t \in ThreadIds :
          /\ ImportSettled(c) /\ t \in ImportTasks(c)
          /\ thr[t].result = "ServiceNotFound"

\* C12: Import answers its caller with the outcome of the import: no call
\* returns the placeholder as a success when the import_record task for it
\* ends in ServiceNotFound or InvalidBackup.
C12_ImportErrorReachesCaller ==
    \A c \in ImportCalls :
        thr[c].result = "ok" =>
            \A t \in ImportTasks(c) :
                thr[t].result \notin {"ServiceNotFound", "InvalidBackup"}

---------------------------------------------------------------------------
(* Properties of create_backup, under Spec *)

\* the task passed the checks of create_backup and the driver has run
PastCreateChecks(t) ==
    /\ thr[t].op = "x_create"
    /\ thr[t].pc \in {"xc_done_volume", "xc_done_backup",
                      "xc_fail_volume", "xc_fail_backup"}

---------------------------------------------------------------------------
(* Create with a bus that may deliver a create_backup message again *)

NextXCreateAgain ==
    \/ \E m \in msgs, again \in BOOLEAN : XCreateGetBackup(m, again)
    \/ \E t \in ThreadIds :
          \/ XCreateGetVolume(t)
          \/ \E ok \in BOOLEAN, mb \in 1..MaxBackupSizeMB :
                XCreateSetService(t, ok, mb)
          \/ XCreateAbortVolume(t)
          \/ XCreateAbortBackupVolume(t)
          \/ XCreateAbortBackup(t)
          \/ XCreateFailVolume(t)
          \/ XCreateFailBackup(t)
          \/ XCreateDoneVolume(t)
          \/ XCreateDoneBackup(t)

\* a volume that has no backup yet
InitCreateAgain ==
    /\ volumes = [v \in VolumeIds |-> InitVolume(v)]
    /\ backups = [b \in BackupIds |-> NoBackup]
    /\ quota = EmptyQuota
    /\ InitIdle

\* full, named backups asked for while the backup service is up, with a
\* record store and a ledger that do not fail
NextCreateFull ==
    \/ \E v \in VolumeIds : CreateGetVolume(v, FALSE, FALSE, <<"d">>, TRUE)
    \/ \E t \in ThreadIds :
          \/ CreateReserve(t)
          \/ CreateSetBackingUp(t)
          \/ CreateInsert(t)
          \/ CreateCommit(t)
          \/ CreateCast(t)

SpecCreateAgain ==
    InitCreateAgain /\ [][NextCreateFull \/ NextXCreateAgain]_vars

\* what a delivery that is to be ignored must leave alone
CreateOutcome(b, v) ==
    <<backups[b].status, backups[b].size, backups[b].container,
      backups[b].fail_reason, volumes[v].status>>

\* C14: a create_backup delivered for a backup that is no longer creating
\* is ignored: the task changes neither the backup's status, size,
\* container or fail reason nor the volume's status.
C14_LateCreateIsIgnored ==
    [][\A t \in ThreadIds :
          (/\ thr[t].op = "x_create" /\ Running(t)
           /\ thr[t].bstatus # "creating"
           /\ thr'[t] # thr[t])
          => CreateOutcome(thr[t].bk, thr[t].vol)'
                = CreateOutcome(thr[t].bk, thr[t].vol)]_vars

---------------------------------------------------------------------------
(* Properties of Restore and restore_backup, under SpecRestore *)

\* the status the volume had when the Restore that cast task t accepted it
AcceptedStatus(t) == thr[thr[t].from].vstatus

\* C15: a restore_backup that succeeds sets the volume's status to the
\* status it had when the Restore was accepted, clears the stash, and sets
\* the backup available.
C15_RestoreReturnsAcceptedStatus ==
    [][\A t \in ThreadIds :
          (thr[t].op = "x_restore" /\ thr'[t] # thr[t]) =>
             CASE thr[t].pc = "xr_done_status" ->
                    volumes'[thr[t].vol].status = AcceptedStatus(t)
               [] thr[t].pc = "xr_done_stash" ->
                    volumes'[thr[t].vol].display_description = ""
               [] thr[t].pc = "xr_done_backup" ->
                    backups'[thr[t].bk].status = "available"
               [] OTHER -> TRUE]_vars

---------------------------------------------------------------------------
(* Restore, Delete and Export of two backups on one host, one made by the  *)
(* host's driver and one imported from a blob that names another driver    *)

NextXRestoreAll ==
    \/ NextXRestore
    \/ \E t \in ThreadIds :
          \/ XRestoreMismatchBackup(t)
          \/ XRestoreMismatchVolume(t)

NextXDeleteAll ==
    \/ NextXDelete
    \/ \E t \in ThreadIds : XDeleteMismatch(t)

\* the record import_record leaves on this host for the foreign blob
ForeignBackup ==
    ImportedRecord(ImportPlaceholder, DecodeRecord(ForeignBlob), ThisHost)

InitMismatch ==
    /\ volumes = [v \in VolumeIds |-> InitVolume(v)]
    /\ backups = [b \in BackupIds |->
           IF b = 1 THEN AvailableBackup(1, <<"d">>)
           ELSE IF b = 2 THEN ForeignBackup
           ELSE NoBackup]
    /\ quota = QuotaAfter(1)
    /\ InitIdle

NextMismatch ==
    \/ NextRestore
    \/ NextXRestoreAll
    \/ NextDelete
    \/ NextXDeleteAll
    \/ NextExport

SpecMismatch == InitMismatch /\ [][NextMismatch]_vars

DriverCalled(t) ==
    \/ /\ thr[t].op = "x_restore"
       /\ thr[t].pc \in {"xr_fail", "xr_fail2", "xr_done_status",
                         "xr_done_stash", "xr_done_backup", "xr_list",
                         "xr_strip", "xr_mark"}
    \/ /\ thr[t].op = "x_delete"
       /\ thr[t].pc \in {"xd_fail", "xd_destroy", "xd_commit"}
       /\ thr[t].bservice # ""

\* the task read a backup recorded for another driver than the host's
ForeignTask(t) ==
    /\ thr[t].op \in {"x_restore", "x_delete"} /\ Running(t)
    /\ thr[t].bservice \notin {"", DriverName}

\* C17: the driver's restore, delete and export_record are never called
\* for a backup recorded for another driver than the host's: such a
\* restore_backup or delete_backup ends in an error without destroying the
\* record, in InvalidBackup when it gets as far as the service check, and
\* such an export_record does not return a blob.
C17_ForeignBackupNeverReachesDriver ==
    /\ [](\A t \in ThreadIds :
             /\ DriverCalled(t) => thr[t].bservice = DriverName
             /\ (thr[t].op = "export" /\ thr[t].result = "ok")
                   => thr[t].service = DriverName)
    /\ [][\A t \in ThreadIds :
             (ForeignTask(t) /\ thr'[t] # thr[t]) =>
                /\ backups'[thr[t].bk].deleted = backups[thr[t].bk].deleted
                /\ thr'[t].result \in
                      {"", "InvalidBackup", "InvalidVolume", "BackupNotFound"}
                /\ thr[t].pc \in {"xr_mismatch2", "xd_mismatch"}
                      => thr'[t].result \in {"InvalidBackup", "BackupNotFound"}
          ]_vars

\* a delete_backup and an export_record of the imported backup were both
\* turned down and the record is still there
C17_Witness ==
    /\ \E t \in ThreadIds :
          /\ thr[t].op = "x_delete" /\ thr[t].result = "InvalidBackup"
          /\ backups[thr[t].bk].service # DriverName
          /\ Live(thr[t].bk)
    /\ \E t \in ThreadIds :
          /\ thr[t].op = "export" /\ thr[t].result = "InvalidBackup"
          /\ backups[thr[t].bk].service # DriverName

\* C18: a Restore that is turned down by a precondition changes nothing:
\* the volume's status and stash and the backup's status are as before and
\* no restore_backup is cast.
C18_RejectedRestoreChangesNothing ==
    [][\A t \in ThreadIds :
          (/\ thr'[t].op = "restore" /\ thr[t].pc # "done"
           /\ thr'[t].pc = "done" /\ thr'[t].result # "ok")
          => /\ volumes' = volumes
             /\ backups' = backups
             /\ msgs' = msgs]_vars

---------------------------------------------------------------------------
(* API.restore without a volume: cinder/backup/api.py 284-311, and the     *)
(* volume service that builds the volume it asks for                       *)

\* lines 284-292: backup_get and the checks on the backup
RestoreNewGetBackup(b) ==
    /\ backups[b].exists
    /\ \E v \in VolumeIds : ~volumes[v].exists
    /\ NewCall(LET call == [IdleThread EXCEPT !.op = "restore", !.bk = b,
                               !.size = backups[b].size]
               IN  IF ~Live(b)
                   THEN [call EXCEPT !.pc = "done", !.result = "BackupNotFound"]
                   ELSE IF backups[b].status # "available"
                   THEN [call EXCEPT !.pc = "done", !.result = "InvalidBackup"]
                   ELSE [call EXCEPT !.pc = "r_create"])
    /\ UNCHANGED <<volumes, backups, quota, msgs, ndup>>

\* the id volume_api.create hands out
NextVolumeId == CHOOSE v \in VolumeIds :
                   ~volumes[v].exists
                   /\ \A w \in VolumeIds : ~volumes[w].exists => v <= w

\* the size, in GB, of the volume asked for: the backup's size (line 304)
NewVolumeSize(backupSize) == backupSize

\* lines 297-305: volume_api.create(context, size, name, description)
RestoreCreateVolume(t) ==
    /\ At(t, "restore", "r_create")
    /\ \E v \in VolumeIds : ~volumes[v].exists
    /\ volumes' = [volumes EXCEPT ![NextVolumeId] =
           [exists |-> TRUE, status |-> "creating",
            display_description |-> "auto-created_from_restore_from_backup",
            size |-> NewVolumeSize(thr[t].size),
            host |-> ThisHost, attachments |-> {},
            volume_type |-> "ebs-data"]]
    /\ Step(t, [thr[t] EXCEPT !.vol = NextVolumeId, !.pc = "r_wait"])
    /\ UNCHANGED <<backups, quota, msgs, nthr, ncalls, ndup>>

\* the volume service finishes the volume, or fails
VolumeCreated(v, ok) ==
    /\ volumes[v].exists /\ volumes[v].status = "creating"
    /\ volumes' = [volumes EXCEPT
           ![v].status = IF ok THEN "available" ELSE "error"]
    /\ UNCHANGED <<backups, quota, msgs, thr, nthr, ncalls, ndup>>

\* lines 307-328: the poll that finds the volume no longer creating, and
\* the checks on the volume it read
RestorePollVolume(t, poweredOff) ==
    /\ At(t, "restore", "r_wait")
    /\ volumes[thr[t].vol].status # "creating"
    /\ Step(t, IF RestoreAdmits(volumes[thr[t].vol].status, poweredOff)
               THEN [thr[t] EXCEPT !.vstatus = volumes[thr[t].vol].status,
                                   !.pc = "r_stash"]
               ELSE Finish(t, "InvalidVolume"))
    /\ UNCHANGED <<volumes, backups, quota, msgs, nthr, ncalls, ndup>>

NextRestoreNew ==
    \/ \E b \in BackupIds : RestoreNewGetBackup(b)
    \/ \E t \in ThreadIds : RestoreCreateVolume(t)
    \/ \E v \in VolumeIds, ok \in BOOLEAN : VolumeCreated(v, ok)
    \/ \E t \in ThreadIds, off \in BOOLEAN : RestorePollVolume(t, off)
    \/ \E b \in BackupIds, v \in VolumeIds :
          volumes[v].exists /\ RestoreGetBackup(b, v)
    \/ \E t \in ThreadIds :
          \/ \E off \in BOOLEAN : RestoreGetVolume(t, off)
          \/ RestoreStashStatus(t)
          \/ RestoreSetRestoring(t)
          \/ RestoreSetVolume(t)
          \/ RestoreCast(t)

\* the sizes, in MB, of the backup to restore
RestoreSizes == {MaxBackupSizeMB, 500}

\* no volume, and one backup that was imported
InitRestoreNew ==
    /\ volumes = [v \in VolumeIds |-> NoVolume]
    /\ \E mb \in RestoreSizes :
          backups = [b \in BackupIds |->
              IF b = 1
              THEN ImportedRecord(ImportPlaceholder,
                       DecodeRecord(EncodeRecord(
                           [AvailableBackup(1, <<"d">>) EXCEPT !.size = mb])),
                       ThisHost)
              ELSE NoBackup]
    /\ quota = EmptyQuota
    /\ InitIdle

SpecRestoreNew ==
    InitRestoreNew /\ [][NextRestoreNew \/ NextXRestoreUnmarked]_vars

\* the least whole number of GB that holds sizeMB
NeededGB(sizeMB) == (sizeMB + 1023) \div 1024

\* C19: a Restore without a volume asks for a new volume whose size in GB
\* is the least that holds the backup's size in MB (1 GB for 500 MB).
C19_NewVolumeHoldsBackup ==
    [][\A t \in ThreadIds :
          (At(t, "restore", "r_create") /\ thr'[t].pc = "r_wait")
          => volumes'[thr'[t].vol].size = NeededGB(thr[t].size)]_vars

---------------------------------------------------------------------------
(* API.reset_status: cinder/backup/api.py 365-378 *)

\* the statuses an administrator resets a backup to
ResetTargets == {"available", "error"}

\* line 375: get the backup, to learn its host
ResetGetBackup(b, status) ==
    /\ backups[b].exists
    /\ NewCall(LET call == [IdleThread EXCEPT !.op = "reset", !.bk = b,
                               !.target = status]
               IN  IF ~Live(b)
                   THEN [call EXCEPT !.pc = "done", !.result = "BackupNotFound"]
                   ELSE [call EXCEPT !.pc = "s_cast",
                                     !.host = backups[b].host])
    /\ UNCHANGED <<volumes, backups, quota, msgs, ndup>>

\* lines 377-378: cast reset_status to the backup's host
ResetCast(t) ==
    /\ At(t, "reset", "s_cast")
    /\ msgs' = msgs \cup {[Message(t, "reset_status", thr[t].bk, None) EXCEPT
                              !.host = thr[t].host,
                              !.status = thr[t].target]}
    /\ Step(t, [Finish(t, "ok") EXCEPT !.sent = TRUE])
    /\ UNCHANGED <<volumes, backups, quota, nthr, ncalls, ndup>>

---------------------------------------------------------------------------
(* BackupManager.reset_status: cinder/backup/manager.py 860-950 *)

\* the two kinds of value the handler could test for verify support: the
\* name _map_service_to_driver returns for the record's service, and the
\* driver object of the host (service.get_backup_driver)
ServiceName(service) == [kind |-> "name", name |-> service]

BackupDriver(host, verifies) ==
    [kind |-> "driver", name |-> HostDrivers[host], verify |-> verifies]

\* isinstance(x, driver.BackupDriverWithVerify): only a driver object can be
\* an instance of the class
IsBackupDriverWithVerify(x) == x.kind = "driver" /\ x.verify

\* line 885: the value the handler names backup_service and tests at 902
\* (the driver object of the host is not fetched in this handler)
ResetBackupService(bservice, driver) == ServiceName(bservice)

\* where reset_status goes after backup_get (885-921)
XResetBranch(status, bstatus, bservice, driver, verifyOk) ==
    LET backup_service == ResetBackupService(bservice, driver)
    IN  IF bservice = "" THEN "ok"
        ELSE IF backup_service.name # DriverName THEN "InvalidBackup"
        ELSE IF status = "available" /\ bstatus # "restoring"
        THEN IF IsBackupDriverWithVerify(backup_service)
             THEN IF verifyOk THEN "xs_update" ELSE "InvalidBackup"
             ELSE "BackupVerifyUnsupportedDriver"
        ELSE IF status = "error"
                \/ (status = "available" /\ bstatus = "restoring")
        THEN "xs_update"
        ELSE "ok"

\* lines 874-921: require_driver_initialized, backup_get, the service check
\* and the choice of what to do; verifies says whether the host's driver has
\* verify(), verifyOk what verify() would answer
XResetGetBackup(m, again, initialized, verifies, verifyOk) ==
    /\ m \in msgs /\ m.op = "reset_status"
    /\ IF again THEN ndup < MaxDup /\ ndup' = ndup + 1 /\ UNCHANGED msgs
                ELSE msgs' = msgs \ {m} /\ UNCHANGED ndup
    /\ LET task == [Task(m, "x_reset") EXCEPT !.target = m.status,
                                              !.verifies = verifies]
       IN  IF ~initialized
           THEN Spawn([task EXCEPT !.pc = "done",
                                   !.result = "DriverNotInitialized"])
           ELSE IF ~Live(m.bk)
           THEN Spawn([task EXCEPT !.pc = "done",
                                   !.result = "BackupNotFound"])
           ELSE LET read == [task EXCEPT
                                !.bstatus = backups[m.bk].status,
                                !.bservice = backups[m.bk].service]
                    branch == XResetBranch(m.status, read.bstatus,
                                  read.bservice,
                                  BackupDriver(m.host, verifies), verifyOk)
                IN  Spawn(IF branch = "xs_update"
                          THEN [read EXCEPT !.pc = "xs_update"]
                          ELSE [read EXCEPT !.pc = "done",
                                            !.result = branch])
    /\ UNCHANGED <<volumes, backups, quota, ncalls>>

\* lines 905-906 and 922-923: backup_update(status: the target)
XResetUpdate(t) ==
    /\ At(t, "x_reset", "xs_update")
    /\ IF Live(thr[t].bk)
       THEN /\ backups' = BackupUpdate(thr[t].bk,
                   [backups[thr[t].bk] EXCEPT !.status = thr[t].target])
            /\ Step(t, [thr[t] EXCEPT !.pc = "done", !.result = "ok"])
       ELSE /\ Step(t, [thr[t] EXCEPT !.pc = "done",
                                      !.result = "BackupNotFound"])
            /\ UNCHANGED backups
    /\ UNCHANGED <<volumes, quota, msgs, nthr, ncalls, ndup>>

NextReset ==
    \/ \E b \in BackupIds, status \in ResetTargets : ResetGetBackup(b, status)
    \/ \E t \in ThreadIds : ResetCast(t)

NextXReset ==
    \/ \E m \in msgs, again, initialized, verifies, verifyOk \in BOOLEAN :
          XResetGetBackup(m, again, initialized, verifies, verifyOk)
    \/ \E t \in ThreadIds : XResetUpdate(t)

\* the statuses a backup at rest or left behind by a dead task can have
ResetStatuses == {"available", "error", "restoring", "creating"}

InitReset ==
    /\ volumes = [v \in VolumeIds |-> InitVolume(v)]
    /\ \E st \in ResetStatuses, n \in {1, 2} :
          backups = [b \in BackupIds |->
              IF b = 1 THEN [AvailableBackup(1, <<"d">>) EXCEPT !.status = st]
              ELSE IF b = 2 /\ n = 2 THEN ForeignBackup
              ELSE NoBackup]
    /\ quota = QuotaAfter(1)
    /\ InitIdle

SpecReset == InitReset /\ [][NextReset \/ NextXReset]_vars

\* a reset task that has just read its backup, for the target `available`,
\* on a backup that is not restoring and was made with this host's driver
ResetToAvailable(t) ==
    /\ thr[t].pc = "idle" /\ thr'[t].op = "x_reset"
    /\ thr'[t].target = "available"
    /\ thr'[t].bstatus \notin {"", "restoring"}
    /\ thr'[t].bservice = DriverName

\* C20: ResetStatus to available on a backup that is not restoring: when the
\* host's driver supports verify() the task invokes it and, unless verify()
\* rejects the backup, goes on to set the status to available; when the
\* driver does not support verify() the task fails with VerifyUnsupported
\* and leaves the status as it was.
C20_ResetToAvailableVerifies ==
    [][\A t \in ThreadIds :
          /\ ResetToAvailable(t)
             => IF thr'[t].verifies
                THEN \/ thr'[t].pc = "xs_update"
                     \/ thr'[t].result = "InvalidBackup"
                ELSE /\ thr'[t].result = "BackupVerifyUnsupportedDriver"
                     /\ backups' = backups
          /\ (At(t, "x_reset", "xs_update") /\ Live(thr[t].bk)
              /\ thr'[t].pc = "done")
             => backups'[thr[t].bk].status = thr[t].target]_vars

---------------------------------------------------------------------------
(* BackupManager.init_host: cinder/backup/manager.py 203-263.  The sweep    *)
(* runs when the executor process starts, before it consumes any message:   *)
(* no other task of the host runs beside it.                                *)

OtherHost == 2

\* a volume_attachment row: the host it is attached on and the guest
\* instance it serves (None: attached by the host itself)
Attachment(host, instance) == [attached_host |-> host,
                               instance_uuid |-> instance]

\* lines 223-225 and 232-234: the attachments init_host detaches
HostSide(attachments) ==
    {a \in attachments : a.attached_host = ThisHost /\ a.instance_uuid = None}

\* the ids in a set, as the sequence a listing returns them in
RECURSIVE Listed(_)
Listed(ids) ==
    IF ids = {} THEN <<>>
    ELSE LET least == CHOOSE i \in ids : \A j \in ids : i <= j
         IN  <<least>> \o Listed(ids \ {least})

\* line 212: volume_get_all_by_host
VolumesByHost(host) ==
    LET ids == Listed({v \in VolumeIds :
                          volumes[v].exists /\ volumes[v].host = host})
    IN  [i \in 1..Len(ids) |-> [id |-> ids[i], rec |-> volumes[ids[i]]]]

\* line 241: backup_get_all_by_host
BackupsByHost(host) ==
    LET ids == Listed({b \in LiveBackups : backups[b].host = host})
    IN  [i \in 1..Len(ids) |-> [id |-> ids[i], rec |-> backups[ids[i]]]]

Sweeps == {t \in ThreadIds : thr[t].op = "init_host"}

\* lines 206-212: the process starts and lists the volumes of the host
InitHostStart ==
    /\ Sweeps = {}
    /\ Spawn([IdleThread EXCEPT !.op = "init_host", !.pc = "ih_volume",
                                !.host = ThisHost,
                                !.todo = VolumesByHost(ThisHost)])
    /\ UNCHANGED <<volumes, backups, quota, msgs, ncalls, ndup>>

\* lines 216-238 for a volume as listed: nothing without attachments; a
\* backing-up volume loses its host-side attachments; a restoring-backup
\* volume loses them and becomes error_restoring
SweptVolume(listed, now) ==
    IF listed.attachments = {} THEN now
    ELSE IF listed.status = "backing-up"
    THEN [now EXCEPT !.attachments = @ \ HostSide(listed.attachments)]
    ELSE IF listed.status = "restoring-backup"
    THEN [now EXCEPT !.attachments = @ \ HostSide(listed.attachments),
                     !.status = "error_restoring"]
    ELSE now

\* one turn of the loop over the volumes (213-238); a detach_volume that
\* raises ends init_host
InitHostVolume(t, detachOk) ==
    /\ At(t, "init_host", "ih_volume")
    /\ thr[t].todo # <<>>
    /\ LET e == Head(thr[t].todo)
           detaches == /\ e.rec.status \in {"backing-up", "restoring-backup"}
                       /\ HostSide(e.rec.attachments) # {}
       IN  IF detaches /\ ~detachOk
           THEN /\ Step(t, [thr[t] EXCEPT !.pc = "done", !.todo = <<>>,
                                          !.result = "DetachFailed"])
                /\ UNCHANGED volumes
           ELSE /\ volumes' = [volumes EXCEPT
                       ![e.id] = SweptVolume(e.rec, volumes[e.id])]
                /\ Step(t, [thr[t] EXCEPT !.todo = Tail(thr[t].todo)])
    /\ UNCHANGED <<backups, quota, msgs, nthr, ncalls, ndup>>

\* line 241: list the backups of the host
InitHostGetBackups(t) ==
    /\ At(t, "init_host", "ih_volume")
    /\ thr[t].todo = <<>>
    /\ LET listing == BackupsByHost(ThisHost)
       IN  Step(t, IF listing = <<>>
                   THEN [thr[t] EXCEPT !.pc = "done", !.result = "ok"]
                   ELSE [thr[t] EXCEPT !.pc = "ih_backup", !.todo = listing,
                                       !.seen = listing])
    /\ UNCHANGED <<volumes, backups, quota, msgs, nthr, ncalls, ndup>>

SweptBackupKeepsCreating(listed, now) ==
    IF listed.status = "restoring"
    THEN [now EXCEPT !.status = "available"]
    ELSE now

SweptBackupKeepsRestoring(listed, now) ==
    IF listed.status = "creating"
    THEN [now EXCEPT !.status = "error",
                     !.fail_reason = "incomplete backup reset on manager restart"]
    ELSE now

\* lines 243-255: what the sweep writes to a backup listed as creating or
\* restoring
SweptBackup(listed, now) ==
    IF listed.status = "creating"
    THEN [now EXCEPT !.status = "error",
                     !.fail_reason = "incomplete backup reset on manager restart"]
    ELSE IF listed.status = "restoring"
    THEN [now EXCEPT !.status = "available"]
    ELSE now

\* the sweep's place after the backup at the head of its list
InitHostAdvance(t) ==
    IF Tail(thr[t].todo) = <<>>
    THEN [thr[t] EXCEPT !.pc = "done", !.todo = <<>>, !.result = "ok"]
    ELSE [thr[t] EXCEPT !.pc = "ih_backup", !.todo = Tail(thr[t].todo)]

\* one turn of the loop over the backups (242-255): creating and restoring
\* are reset, every other status but deleting is passed over
InitHostBackup(t) ==
    /\ At(t, "init_host", "ih_backup")
    /\ LET e == Head(thr[t].todo)
       IN  /\ e.rec.status # "deleting"
           /\ IF e.rec.status \in {"creating", "restoring"} /\ ~Live(e.id)
              THEN /\ Step(t, [thr[t] EXCEPT !.pc = "done", !.todo = <<>>,
                                             !.result = "BackupNotFound"])
                   /\ UNCHANGED backups
              ELSE /\ backups' = BackupUpdate(e.id,
                                     SweptBackup(e.rec, backups[e.id]))
                   /\ Step(t, InitHostAdvance(t))
    /\ UNCHANGED <<volumes, quota, msgs, nthr, ncalls, ndup>>

\* the sweep calls delete_backup in place and waits for it
InitHostCall(t, task) ==
    /\ nthr < Cardinality(ThreadIds)
    /\ thr' = [thr EXCEPT ![NewThread] = task,
                          ![t] = [@ EXCEPT !.pc = "ih_delete"]]
    /\ nthr' = nthr + 1

\* lines 256-259: a deleting backup: delete_backup is called in place; its
\* first steps (618-633) are those of XDeleteGetBackup
InitHostDelete(t, initialized) ==
    /\ At(t, "init_host", "ih_backup")
    /\ LET e == Head(thr[t].todo)
           task == [IdleThread EXCEPT !.op = "x_delete", !.bk = e.id,
                                      !.from = t, !.host = ThisHost]
       IN  /\ e.rec.status = "deleting"
           /\ IF ~Live(e.id)
              THEN /\ InitHostCall(t, [task EXCEPT !.pc = "done",
                                          !.result = "BackupNotFound"])
                   /\ UNCHANGED backups
              ELSE IF ~initialized
              THEN /\ InitHostCall(t, [task EXCEPT !.pc = "done",
                                          !.result = "DriverNotInitialized"])
                   /\ backups' = BackupUpdate(e.id, [backups[e.id] EXCEPT
                          !.status = "error",
                          !.fail_reason = "driver not initialized"])
              ELSE /\ InitHostCall(t, [task EXCEPT !.pc = "xd_host",
                          !.bstatus = backups[e.id].status,
                          !.bservice = backups[e.id].service,
                          !.vol = backups[e.id].volume_id])
                   /\ UNCHANGED backups
    /\ UNCHANGED <<volumes, quota, msgs, ncalls, ndup>>

\* (mutant) a delete_backup that raised ends init_host
InitHostResumePropagates(t) ==
    /\ At(t, "init_host", "ih_delete")
    /\ \A c \in ThreadIds : thr[c].op = "x_delete" => thr[c].pc = "done"
    /\ LET failed == {c \in ThreadIds : /\ thr[c].op = "x_delete"
                                       /\ thr[c].bk = Head(thr[t].todo).id
                                       /\ thr[c].result # "ok"}
       IN  Step(t, IF failed = {} THEN InitHostAdvance(t)
                   ELSE [thr[t] EXCEPT !.pc = "done", !.todo = <<>>,
                                       !.result = "InvalidBackup"])
    /\ UNCHANGED <<volumes, backups, quota, msgs, nthr, ncalls, ndup>>

\* lines 258-263: delete_backup returned or raised; a failure is logged and
\* the loop goes on
InitHostResume(t) ==
    /\ At(t, "init_host", "ih_delete")
    /\ \A c \in ThreadIds : thr[c].op = "x_delete" => thr[c].pc = "done"
    /\ Step(t, InitHostAdvance(t))
    /\ UNCHANGED <<volumes, backups, quota, msgs, nthr, ncalls, ndup>>

NextInitHost ==
    \/ InitHostStart
    \/ \E t \in ThreadIds :
          \/ \E ok \in BOOLEAN : InitHostVolume(t, ok)
          \/ InitHostGetBackups(t)
          \/ InitHostBackup(t)
          \/ \E init \in BOOLEAN : InitHostDelete(t, init)
          \/ InitHostResume(t)

\* delete_backup as init_host calls it: the record it reads is deleting
NextXDeleteResumed ==
    \E t \in ThreadIds :
       \/ \E ok \in BOOLEAN, rok \in BOOLEAN : XDeleteSetHost(t, ok, rok)
       \/ XDeleteMismatch(t)
       \/ XDeleteFail(t)
       \/ XDeleteDestroy(t)
       \/ XDeleteCommit(t)

\* what a process that died can leave behind
CrashedBackupStatuses == {"creating", "restoring", "deleting", "available",
                          "error"}

CrashedVolumeStatuses == {"available", "backing-up", "restoring-backup"}

CrashedAttachments ==
    SUBSET {Attachment(ThisHost, None), Attachment(ThisHost, 1),
            Attachment(OtherHost, None)}

InitCrashed ==
    /\ \E st \in CrashedVolumeStatuses, att \in CrashedAttachments,
          h \in {ThisHost, OtherHost} :
          volumes = [v \in VolumeIds |->
              [InitVolume(v) EXCEPT !.status = st, !.attachments = att,
                                    !.host = h]]
    /\ \E s1 \in CrashedBackupStatuses, s2 \in CrashedBackupStatuses,
          h2 \in {ThisHost, OtherHost}, n \in {2, 3} :
          backups = [b \in BackupIds |->
              IF b = 1 THEN [AvailableBackup(1, <<"d">>) EXCEPT !.status = s1]
              ELSE IF b = 2
              THEN [AvailableBackup(1, <<"d">>) EXCEPT !.status = s2,
                                                       !.host = h2]
              ELSE IF n = 3 THEN [ForeignBackup EXCEPT !.status = "deleting"]
              ELSE NoBackup]
    /\ quota = QuotaAfter(2)
    /\ InitIdle

SpecInitHost == InitCrashed /\ [][NextInitHost \/ NextXDeleteResumed]_vars

SweepsDone == {t \in Sweeps : thr[t].pc = "done" /\ thr[t].result = "ok"}

\* C21: when init_host has run to its end, no backup of the host is creating
\* or restoring: each backup it listed as creating is error with a reason,
\* each it listed as restoring is available, and each it listed as available
\* or error is as it was listed.
C21_SweepSettlesBackups ==
    \A t \in SweepsDone :
       /\ \A b \in LiveBackups :
             backups[b].host = ThisHost
             => backups[b].status \notin {"creating", "restoring"}
       /\ \A i \in 1..Len(thr[t].seen) :
             LET e == thr[t].seen[i]
             IN  /\ e.rec.status = "creating"
                    => /\ backups[e.id].status = "error"
                       /\ backups[e.id].fail_reason # ""
                 /\ e.rec.status = "restoring"
                    => backups[e.id].status = "available"
                 /\ e.rec.status \in {"available", "error"}
                    => backups[e.id] = e.rec

C21_Witness ==
    \E t \in SweepsDone :
       /\ \E i \in 1..Len(thr[t].seen) : thr[t].seen[i].rec.status = "creating"
       /\ \E i \in 1..Len(thr[t].seen) : thr[t].seen[i].rec.status = "restoring"

\* C22: when init_host has run to its end, no volume of the host that was
\* restoring-backup without an attachment to a guest instance is still
\* restoring-backup: it is error_restoring.  (Only init_host writes volumes
\* here, and it never adds an attachment.)
C22_SweepSettlesVolumes ==
    \A t \in SweepsDone :
       \A v \in VolumeIds :
          (/\ volumes[v].exists /\ volumes[v].host = ThisHost
           /\ \A a \in volumes[v].attachments : a.instance_uuid = None)
          => volumes[v].status # "restoring-backup"

---------------------------------------------------------------------------
(* BackupManager._create_backup_for_instance_backup:                        *)
(* cinder/backup/manager.py 952-1054, the task create_instance_backup       *)
(* starts for each member of the group.                                     *)

\* the writes a task still has to make: the volume's status, or the
\* backup's status with its reason, size and container
VolumeWrite(status) == [w |-> "volume", status |-> status, reason |-> "",
                        size |-> 0]

BackupWrite(status, reason, size) ==
    [w |-> "backup", status |-> status, reason |-> reason, size |-> size]

\* lines 983-1038: the writes the task makes after its checks and the
\* driver's backup_volume, and the way it ends
MemberPlan(vstatus, bstatus, previous_status, driverOk, sizeMB) ==
    IF vstatus # "backing-up"
    THEN [writes |-> <<BackupWrite("error", "expected volume status", 0)>>,
          result |-> "InvalidVolume"]
    ELSE IF bstatus # "creating"
    THEN [writes |-> <<VolumeWrite(previous_status),
                       BackupWrite("error", "expected backup status", 0)>>,
          result |-> "InvalidBackup"]
    ELSE IF ~driverOk
    THEN [writes |-> <<VolumeWrite(previous_status),
                       BackupWrite("error", "driver error", 0)>>,
          result |-> "DriverError"]
    ELSE [writes |-> <<VolumeWrite(previous_status),
                       BackupWrite("available", "", sizeMB)>>,
          result |-> "ok"]

\* line 958: backup_get, when the green thread first runs
XMemberGetBackup(t) ==
    /\ At(t, "x_member", "xm_start")
    /\ Step(t, IF Live(thr[t].bk)
               THEN [thr[t] EXCEPT !.pc = "xm_volume",
                        !.bstatus = backups[thr[t].bk].status,
                        !.vol = backups[thr[t].bk].volume_id]
               ELSE [thr[t] EXCEPT !.pc = "done",
                        !.result = "BackupNotFound"])
    /\ UNCHANGED <<volumes, backups, quota, msgs, nthr, ncalls, ndup>>

\* lines 960-963: volume_get; the display_description holds the status the
\* volume had before the backup
XMemberGetVolume(t) ==
    /\ At(t, "x_member", "xm_volume")
    /\ Step(t, [thr[t] EXCEPT !.pc = "xm_service",
                   !.vstatus = volumes[thr[t].vol].status,
                   !.vdesc = volumes[thr[t].vol].display_description])
    /\ UNCHANGED <<volumes, backups, quota, msgs, nthr, ncalls, ndup>>

\* lines 979-1030: backup_update(host, service), the two checks on what was
\* read, and the driver's backup_volume
XMemberSetService(t, driverOk, sizeMB) ==
    /\ At(t, "x_member", "xm_service")
    /\ IF Live(thr[t].bk)
       THEN /\ backups' = BackupUpdate(thr[t].bk, [backups[thr[t].bk] EXCEPT
                   !.host = ThisHost, !.service = DriverName])
            /\ LET plan == MemberPlan(thr[t].vstatus, thr[t].bstatus,
                               thr[t].vdesc, driverOk, sizeMB)
               IN  Step(t, [thr[t] EXCEPT !.pc = "xm_write",
                               !.todo = plan.writes, !.target = plan.result])
       ELSE /\ Step(t, [thr[t] EXCEPT !.pc = "done",
                                      !.result = "BackupNotFound"])
            /\ UNCHANGED backups
    /\ UNCHANGED <<volumes, quota, msgs, nthr, ncalls, ndup>>

\* the task's place after the write at the head of its list
MemberAdvance(t) ==
    IF Tail(thr[t].todo) = <<>>
    THEN [thr[t] EXCEPT !.pc = "done", !.todo = <<>>,
                        !.result = thr[t].target]
    ELSE [thr[t] EXCEPT !.todo = Tail(thr[t].todo)]

\* lines 990-991, 1002-1005, 1030-1035 and 1037-1043: the volume_update and
\* backup_update calls, one at a time
XMemberWrite(t) ==
    /\ At(t, "x_member", "xm_write")
    /\ LET e == Head(thr[t].todo)
       IN  IF e.w = "volume"
           THEN /\ volumes' = [volumes EXCEPT
                       ![thr[t].vol].status = e.status]
                /\ Step(t, MemberAdvance(t))
                /\ UNCHANGED backups
           ELSE IF ~Live(thr[t].bk)
           THEN /\ Step(t, [thr[t] EXCEPT !.pc = "done", !.todo = <<>>,
                                          !.result = "BackupNotFound"])
                /\ UNCHANGED <<volumes, backups>>
           ELSE /\ backups' = BackupUpdate(thr[t].bk,
                       IF e.status = "available"
                       THEN [backups[thr[t].bk] EXCEPT
                                !.status = "available", !.size = e.size,
                                !.availability_zone = AvailabilityZone]
                       ELSE [backups[thr[t].bk] EXCEPT
                                !.status = e.status,
                                !.fail_reason = e.reason])
                /\ Step(t, MemberAdvance(t))
                /\ UNCHANGED volumes
    /\ UNCHANGED <<quota, msgs, nthr, ncalls, ndup>>

NextXMember ==
    \E t \in ThreadIds :
       \/ XMemberGetBackup(t)
       \/ XMemberGetVolume(t)
       \/ \E ok \in BOOLEAN, mb \in 1..MaxBackupSizeMB :
             XMemberSetService(t, ok, mb)
       \/ XMemberWrite(t)

---------------------------------------------------------------------------
(* BackupManager.create_instance_backup: cinder/backup/manager.py 1056-1222 *)

GroupSize == 2
MOST_BACKUP_RETRIES == 2

GroupVolumeIds == 1..GroupSize

FUJITSI_VOLUME_TYPE_NAME == "fujitsu-ipsan"
EBS_VOLUME_TYPE_NAME == "ebs-data"

\* what nova.API().exec_cmd("sync") and freeze_filesystem can answer: the
\* exceptions lines 1078-1103 name, and any other
FreezeOutcomes == {"ok", "ServerNotFound", "APITimeout", "ExecCmdError",
                   "QemuGANotEnable", "QemuGANotAvailable",
                   "QemuGARepeatFreeze", "Exception"}

\* what nova.API().thaw_filesystem can answer
ThawOutcomes == {"ok", "APITimeout", "ServerNotFound", "QemuGARepeatThaw",
                 "Exception"}

GroupAfterFreezeStopsOnTimeout(outcome) ==
    IF outcome = "APITimeout" THEN "done" ELSE "xi_poll"

\* lines 1069-1103: every exception of the freeze is caught and logged; the
\* handler goes on to start the tasks and to poll
GroupAfterFreeze(outcome) == "xi_poll"

\* lines 1066-1117: get_vm_state, the freeze when the instance is active,
\* and one green thread per member (a green thread runs when the handler
\* first yields)
XInstStart(m, vm, outcome) ==
    /\ m \in msgs /\ m.op = "create_instance_backup"
    /\ msgs' = msgs \ {m}
    /\ nthr + 1 + Len(m.members) <= Cardinality(ThreadIds)
    /\ LET freeze == IF vm = "active" THEN outcome ELSE ""
           next == IF vm = "active" THEN GroupAfterFreeze(outcome)
                                    ELSE "xi_poll"
           group == [IdleThread EXCEPT !.op = "x_instance", !.pc = next,
                        !.from = m.from, !.host = m.host,
                        !.members = m.members, !.vm = vm,
                        !.freeze = freeze,
                        !.result = IF next = "done" THEN freeze ELSE ""]
           member(i) == [IdleThread EXCEPT !.op = "x_member",
                            !.pc = "xm_start", !.bk = m.members[i],
                            !.from = nthr + 1, !.host = m.host]
       IN  /\ thr' = [t \in ThreadIds |->
                  IF t = nthr + 1 THEN group
                  ELSE IF next # "done" /\ t > nthr + 1
                          /\ t <= nthr + 1 + Len(m.members)
                  THEN member(t - nthr - 1)
                  ELSE thr[t]]
           /\ nthr' = IF next = "done" THEN nthr + 1
                      ELSE nthr + 1 + Len(m.members)
    /\ UNCHANGED <<volumes, backups, quota, ncalls, ndup>>

\* lines 1139-1194: what one turn of the loop decides from the statuses it
\* read; cloned says whether the description of a creating backup of a
\* Fujitsu volume carries the clone-session flag
PollDecision(listing, cloned) ==
    LET statuses == {listing[i].status : i \in 1..Len(listing)}
        creating(type) == \E i \in 1..Len(listing) :
                             /\ listing[i].volume_type = type
                             /\ listing[i].status = "creating"
    IN  IF statuses \subseteq {"available", "error"} THEN "break"
        ELSE IF statuses \subseteq {"available", "error", "creating"}
        THEN IF creating(EBS_VOLUME_TYPE_NAME) THEN "sleep"
             ELSE IF creating(FUJITSI_VOLUME_TYPE_NAME) /\ ~cloned
             THEN "sleep"
             ELSE "break"
        ELSE "next"

\* lines 1131-1137: backup_get of every member and volume_get of its volume
GroupListing(members) ==
    [i \in 1..Len(members) |->
        [status |-> backups[members[i]].status,
         volume_type |-> volumes[backups[members[i]].volume_id].volume_type]]

\* line 1196: the test made after the loop
TimedOut(attempt) == attempt = MOST_BACKUP_RETRIES - 1

\* where the handler goes after the loop (1196-1211)
GroupAfterLoop(t, attempt) ==
    IF TimedOut(attempt)
    THEN [thr[t] EXCEPT !.pc = "xi_timeout", !.attempt = attempt,
                        !.todo = thr[t].members]
    ELSE IF thr[t].vm = "active"
    THEN [thr[t] EXCEPT !.pc = "xi_thaw", !.attempt = attempt]
    ELSE [thr[t] EXCEPT !.pc = "done", !.attempt = attempt, !.result = "ok"]

\* lines 1130-1194: one turn of the loop; a member that is gone raises
\* BackupNotFound out of the handler
XInstPoll(t, cloned) ==
    /\ At(t, "x_instance", "xi_poll")
    /\ Step(t, IF \E i \in 1..Len(thr[t].members) : ~Live(thr[t].members[i])
               THEN [thr[t] EXCEPT !.pc = "done", !.result = "BackupNotFound"]
               ELSE LET decision == PollDecision(GroupListing(thr[t].members),
                                                 cloned)
                    IN  IF decision = "break"
                           \/ thr[t].attempt = MOST_BACKUP_RETRIES - 1
                        THEN GroupAfterLoop(t, thr[t].attempt)
                        ELSE [thr[t] EXCEPT !.attempt = @ + 1])
    /\ UNCHANGED <<volumes, backups, quota, msgs, nthr, ncalls, ndup>>

\* lines 1200-1204: backup_update(status: error, fail_reason) of the next
\* member of the group
XInstTimeout(t) ==
    /\ At(t, "x_instance", "xi_timeout")
    /\ LET b == Head(thr[t].todo)
           rest == Tail(thr[t].todo)
       IN  IF ~Live(b)
           THEN /\ Step(t, [thr[t] EXCEPT !.pc = "done", !.todo = <<>>,
                                          !.result = "BackupNotFound"])
                /\ UNCHANGED backups
           ELSE /\ backups' = BackupUpdate(b, [backups[b] EXCEPT
                       !.status = "error",
                       !.fail_reason = "backing up isn't finished in 3600s"])
                /\ Step(t, IF rest # <<>>
                           THEN [thr[t] EXCEPT !.todo = rest]
                           ELSE IF thr[t].vm = "active"
                           THEN [thr[t] EXCEPT !.pc = "xi_thaw", !.todo = <<>>]
                           ELSE [thr[t] EXCEPT !.pc = "done", !.todo = <<>>,
                                               !.result = "ok"])
    /\ UNCHANGED <<volumes, quota, msgs, nthr, ncalls, ndup>>

\* lines 1211-1222: thaw_filesystem; after an APITimeout it is called once
\* more, ServerNotFound and QemuGARepeatThaw are passed over, anything else
\* is raised
XInstThaw(t, outcome, again) ==
    /\ At(t, "x_instance", "xi_thaw")
    /\ Step(t, IF outcome = "APITimeout"
               THEN [thr[t] EXCEPT !.pc = "done", !.thaws = 2,
                                   !.result = again]
               ELSE IF outcome \in {"ok", "ServerNotFound", "QemuGARepeatThaw"}
               THEN [thr[t] EXCEPT !.pc = "done", !.thaws = 1,
                                   !.result = "ok"]
               ELSE [thr[t] EXCEPT !.pc = "done", !.thaws = 1,
                                   !.result = outcome])
    /\ UNCHANGED <<volumes, backups, quota, msgs, nthr, ncalls, ndup>>

NextXInstance ==
    \/ \E m \in msgs, vm \in {"active", "stopped"}, o \in FreezeOutcomes :
          XInstStart(m, vm, o)
    \/ \E t \in ThreadIds :
          \/ \E cloned \in BOOLEAN : XInstPoll(t, cloned)
          \/ XInstTimeout(t)
          \/ \E o \in ThawOutcomes, again \in {"ok", "Exception"} :
                XInstThaw(t, o, again)

\* the statuses a volume can be backed up from
PreviousStatuses == {"available", "in-use"}

\* the state API.create_instance_backup (api.py 445-645) leaves when it has
\* accepted a group: each volume backing-up with its earlier status in the
\* description, one creating backup per volume, the quota committed and the
\* message cast
GroupBackup(v) ==
    [AvailableBackup(v, <<"d">>) EXCEPT !.status = "creating", !.size = 0,
                                        !.service = ""]

InitGroupOf(n) ==
    /\ \E p1 \in PreviousStatuses,
          type \in {EBS_VOLUME_TYPE_NAME, FUJITSI_VOLUME_TYPE_NAME} :
          volumes = [v \in GroupVolumeIds |->
              [InitVolume(v) EXCEPT !.status = "backing-up",
                  !.display_description = IF v = 1 THEN p1 ELSE "available",
                  !.volume_type = IF v = 1 THEN type
                                  ELSE EBS_VOLUME_TYPE_NAME]]
    /\ backups = [b \in BackupIds |->
           IF b \in 1..n THEN GroupBackup(b) ELSE NoBackup]
    /\ quota = QuotaAfter(n)
    /\ msgs = {[Message(None, "create_instance_backup", None, None) EXCEPT
                   !.members = [i \in 1..n |-> i]]}
    /\ thr = [t \in ThreadIds |-> IdleThread]
    /\ nthr = 0
    /\ ncalls = 0
    /\ ndup = 0

InitGroup == InitGroupOf(GroupSize)

SpecGroup == InitGroup /\ [][NextXInstance \/ NextXMember]_vars

\* a group of one volume, whose backup a caller deletes once it is done
InitGroupSingle == InitGroupOf(1)

NextXInstanceFrozen ==
    \/ \E m \in msgs : XInstStart(m, "active", "ok")
    \/ \E t \in ThreadIds :
          \/ \E cloned \in BOOLEAN : XInstPoll(t, cloned)
          \/ XInstTimeout(t)
          \/ \E o \in ThawOutcomes, again \in {"ok", "Exception"} :
                XInstThaw(t, o, again)

SpecGroupDelete ==
    InitGroupSingle /\ [][NextXInstanceFrozen \/ NextXMember \/ NextDelete
                          \/ NextXDelete]_vars

---------------------------------------------------------------------------
(* Properties of the instance-group backup *)

GroupTasks == {t \in ThreadIds : thr[t].op = "x_instance"}

\* C23: when the poll loop ends without every member finished, the timeout
\* handler sets to error only members that are not yet available or error:
\* while some member is still creating, a write of the handler leaves every
\* member that is available or error with its status and its fail_reason.
C23_TimeoutSparesFinished ==
    [][\A t \in GroupTasks :
          (/\ At(t, "x_instance", "xi_timeout")
           /\ thr'[t] # thr[t]
           /\ \E i \in 1..Len(thr[t].members) :
                 backups[thr[t].members[i]].status = "creating")
          => \A b \in BackupIds :
                backups[b].status \in {"available", "error"}
                => /\ backups'[b].status = backups[b].status
                   /\ backups'[b].fail_reason = backups[b].fail_reason]_vars

\* C24: a group backup that attempted the freeze (the instance was active)
\* does not end without having attempted the thaw, whatever failed on the
\* way; one that did not attempt the freeze never attempts the thaw.
C24_ThawFollowsFreeze ==
    \A t \in GroupTasks :
       /\ (thr[t].pc = "done" /\ thr[t].vm = "active") => thr[t].thaws >= 1
       /\ thr[t].vm # "active" => thr[t].thaws = 0

\* the tasks the group handler t started for backup b
MemberTasks(t, b) ==
    {c \in ThreadIds : /\ thr[c].op = "x_member" /\ thr[c].from = t
                       /\ thr[c].bk = b}

\* C25: whatever the freeze answered, the handler starts exactly one task
\* for every member of the group and enters the poll loop.
C25_FreezeFailureDoesNotAbort ==
    /\ [](\A t \in GroupTasks :
             \A i \in 1..Len(thr[t].members) :
                Cardinality(MemberTasks(t, thr[t].members[i])) = 1)
    /\ [][\A t \in ThreadIds :
             (thr[t].op = "idle" /\ thr'[t].op = "x_instance")
             => thr'[t].pc = "xi_poll"]_vars

C25_Witness ==
    \E t \in GroupTasks :
       /\ thr[t].freeze \notin {"", "ok"}
       /\ thr[t].pc \in {"xi_timeout", "xi_thaw"}
       /\ \A i \in 1..Len(thr[t].members) :
             Cardinality(MemberTasks(t, thr[t].members[i])) = 1

\* an executor task that has read backup b and has its status write to b
\* still to make
InWindow(t, b) ==
    \/ /\ thr[t].op = "x_member" /\ thr[t].bk = b
       /\ \/ thr[t].pc \in {"xm_volume", "xm_service"}
          \/ /\ thr[t].pc = "xm_write"
             /\ \E i \in 1..Len(thr[t].todo) : thr[t].todo[i].w = "backup"
    \/ /\ At(t, "x_instance", "xi_timeout")
       /\ \E i \in 1..Len(thr[t].todo) : thr[t].todo[i] = b

\* C26: no two executor tasks are at once between their read of a backup
\* record and their status write to it.
C26_RecordMutualExclusion ==
    \A b \in BackupIds :
       \A t1 \in ThreadIds, t2 \in ThreadIds :
          (InWindow(t1, b) /\ InWindow(t2, b)) => t1 = t2

---------------------------------------------------------------------------
(* The life cycle of a backup *)

LifecycleEdges ==
    {<<"creating", "available">>, <<"creating", "error">>,
     <<"available", "deleting">>, <<"error", "deleting">>,
     <<"available", "restoring">>, <<"restoring", "available">>}

\* C27: every change of a backup's status made by Create, Delete and their
\* executor tasks follows an edge of the life cycle, and a record is
\* destroyed only while it is deleting.
C27_BackupLifecycle ==
    [][\A b \in BackupIds :
          Live(b)
          => /\ backups'[b].status # backups[b].status
                => <<backups[b].status, backups'[b].status>> \in LifecycleEdges
             /\ backups'[b].deleted => backups[b].status = "deleting"]_vars

---------------------------------------------------------------------------
(* Parent selection in API.create (api.py 189-239), over every pair of      *)
(* earlier backups of the volume                                            *)

ParentStatuses == {"available", "error", "creating"}

\* two earlier backups of volume 1, normal or periodic, of which one was
\* made by an administrator of another project (it is not in this project's
\* usage)
InitParent ==
    /\ volumes = [v \in VolumeIds |-> InitVolume(v)]
    /\ \E s1 \in ParentStatuses, s2 \in ParentStatuses,
          d1 \in {<<"d">>, PERIODICSTR \o <<"d">>},
          d2 \in {<<"d">>, PERIODICSTR \o <<"d">>} :
          backups = [b \in BackupIds |->
              IF b = 1
              THEN [AvailableBackup(1, d1) EXCEPT !.status = s1]
              ELSE IF b = 2
              THEN [AvailableBackup(1, d2) EXCEPT !.status = s2]
              ELSE NoBackup]
    /\ quota = QuotaAfter(1)
    /\ InitIdle

SpecParent == InitParent /\ [][NextCreate]_vars

\* the reference rule: the candidates are the volume's backups whose
\* description has no periodic sentinel; the candidate is the last created
RefCandidates(v) ==
    {b \in BackupIds :
        /\ backups[b].exists /\ ~backups[b].deleted
        /\ backups[b].volume_id = v
        /\ \A i \in 1..Len(backups[b].desc) : backups[b].desc[i] # "P"}

RefParent(v) ==
    IF RefCandidates(v) = {} THEN [fails |-> FALSE, parent |-> None]
    ELSE LET last == CHOOSE b \in RefCandidates(v) :
                        \A c \in RefCandidates(v) \ {b} : c < b
         IN  IF backups[last].status = "creating"
             THEN [fails |-> TRUE, parent |-> None]
             ELSE IF backups[last].status = "available"
             THEN [fails |-> FALSE, parent |-> last]
             ELSE [fails |-> FALSE, parent |-> None]

\* C28: the parent Create chooses is the one of the reference rule: none for
\* a periodic or a non-incremental request (a periodic one is tagged); for
\* an incremental one, the last created normal backup if it is available,
\* InvalidBackup if it is creating, none otherwise or when there is none.
C28_ParentSelection ==
    /\ [](\A t \in CreateCalls :
             (thr[t].pc \in {"c_volume", "c_insert"}
              /\ (thr[t].periodic \/ ~thr[t].incremental))
             => /\ thr[t].parent = None
                /\ thr[t].periodic => HasPeriodicTag(thr[t].desc))
    /\ [][\A t \in ThreadIds :
             (At(t, "create", "c_parent") /\ thr'[t] # thr[t])
             => LET ref == RefParent(thr[t].vol)
                IN  IF ref.fails
                    THEN /\ thr'[t].pc = "done"
                         /\ thr'[t].result = "InvalidBackup"
                    ELSE /\ thr'[t].pc = "c_volume"
                         /\ thr'[t].parent = ref.parent]_vars

\* an incremental Create that went on without a parent although an older
\* backup of the volume is available, the last normal one being in error
C28_Witness ==
    \E t \in CreateCalls :
       /\ thr[t].pc = "c_volume" /\ thr[t].incremental /\ ~thr[t].periodic
       /\ thr[t].parent = None
       /\ backups[1].status = "available" /\ backups[1].desc = <<"d">>
       /\ backups[2].status = "error" /\ backups[2].desc = <<"d">>

---------------------------------------------------------------------------
(* create_backup beside Restore: a message delivered again finds the        *)
(* volume taken by a restore                                                *)

SpecCreateRestore ==
    InitCreateAgain /\ [][NextCreateFull \/ NextXCreateAgain
                          \/ NextRestore]_vars

\* C29: a create_backup task that finds a precondition violated ends by
\* setting the backup to error with a reason; when it is the volume that is
\* not backing-up, the task leaves the volume available.
C29_AbortedCreateFreesVolume ==
    [][\A t \in ThreadIds :
          (/\ thr[t].op = "x_create"
           /\ thr[t].pc \in {"xc_abort_volume", "xc_abort_backup2"}
           /\ thr'[t].pc = "done" /\ Live(thr[t].bk))
          => /\ backups'[thr[t].bk].status = "error"
             /\ backups'[thr[t].bk].fail_reason # ""
             /\ thr[t].pc = "xc_abort_volume"
                => volumes'[thr[t].vol].status = "available"]_vars

---------------------------------------------------------------------------
(* The order of the steps of API.create (api.py 241-279), under Spec *)

\* the create_backup messages call t puts on the bus in this step
Dispatched(t) ==
    {m \in msgs' \ msgs : m.op = "create_backup" /\ m.from = t}

\* C30: Create casts create_backup only after it has put the volume in
\* backing-up, inserted the backup in creating and committed its quota
\* reservation, in that order; a Create that raised has cast nothing.
C30_CreateDispatchesLast ==
    /\ [](\A t \in CreateCalls :
             /\ thr[t].pc = "c_cast"
                => /\ thr[t].bk # None /\ backups[thr[t].bk].exists
                   /\ thr[t].resv = "committed"
             /\ (thr[t].pc = "done" /\ thr[t].result # "ok")
                => /\ ~thr[t].sent
                   /\ \A m \in msgs : m.from # t)
    /\ [][\A t \in ThreadIds :
             /\ Dispatched(t) # {} => At(t, "create", "c_cast")
             /\ (thr[t].op = "create" /\ thr'[t].pc = "c_cast"
                 /\ thr[t].pc # "c_cast")
                => /\ thr[t].pc = "c_commit"
                   /\ backups[thr[t].bk].status = "creating"
             /\ (thr[t].op = "create" /\ thr'[t].pc = "c_commit"
                 /\ thr[t].pc # "c_commit")
                => /\ thr[t].pc = "c_insert"
                   /\ backups'[thr'[t].bk].status = "creating"
             /\ (thr[t].op = "create" /\ thr'[t].pc = "c_insert"
                 /\ thr[t].pc # "c_insert")
                => /\ thr[t].pc = "c_volume"
                   /\ volumes'[thr[t].vol].status = "backing-up"]_vars

C30_Witness ==
    /\ \E t \in CreateCalls :
          /\ thr[t].pc = "done" /\ thr[t].result = "ok" /\ thr[t].sent
          /\ \E m \in msgs : m.from = t /\ m.op = "create_backup"
    /\ \E t \in CreateCalls : thr[t].pc = "done" /\ thr[t].result # "ok"

---------------------------------------------------------------------------
(* Create with an executor that can die and start again: the tasks it was   *)
(* running are gone, init_host (manager.py 203-263) runs before the         *)
(* executor consumes another message                                        *)

\* the executor process dies and is started again: init_host begins
Restart ==
    /\ Sweeps = {}
    /\ nthr < Cardinality(ThreadIds)
    /\ thr' = [t \in ThreadIds |->
                 IF t = NewThread
                 THEN [IdleThread EXCEPT !.op = "init_host",
                          !.pc = "ih_volume", !.host = ThisHost,
                          !.todo = VolumesByHost(ThisHost)]
                 ELSE IF thr[t].op = "x_create" /\ Running(t)
                 THEN Finish(t, "killed")
                 ELSE thr[t]]
    /\ nthr' = nthr + 1
    /\ UNCHANGED <<volumes, backups, quota, msgs, ncalls, ndup>>

\* the executor consumes messages once init_host has returned
Serving == \A t \in Sweeps : ~Running(t)

\* the steps of the executor: its create_backup tasks and its startup sweep
NextExecutor ==
    \/ Serving /\ NextXCreate
    \/ \E t \in ThreadIds :
          \/ \E ok \in BOOLEAN : InitHostVolume(t, ok)
          \/ InitHostGetBackups(t)
          \/ InitHostBackup(t)

NextCreateLive == NextCreateFull \/ Restart \/ NextExecutor

\* the executor's green threads are scheduled: a task or a sweep that can
\* take a step takes one
SpecCreateLive ==
    InitCreateAgain /\ [][NextCreateLive]_vars /\ WF_vars(NextExecutor)

\* the backups a Create call has returned to its caller
Accepted ==
    {b \in LiveBackups : \E t \in CreateCalls :
        thr[t].bk = b /\ thr[t].pc = "done" /\ thr[t].result = "ok"}

\* C31: a backup that Create accepted in creating becomes available or
\* error, when the executor runs its create_backup task to the end or is
\* started again and runs its sweep: none stays creating for ever.
C31_AcceptedBackupSettles ==
    \A b \in BackupIds :
       (b \in Accepted /\ backups[b].status = "creating")
          ~> (backups[b].status \in {"available", "error"})

C31_Witness ==
    \E b \in Accepted :
       /\ backups[b].status = "error"
       /\ backups[b].fail_reason = "incomplete backup reset on manager restart"
       /\ \E t \in ThreadIds : thr[t].op = "x_create" /\ thr[t].bk = b
                               /\ thr[t].result = "killed"

---------------------------------------------------------------------------
(* init_host resuming the deletes a dead executor left, under SpecInitHost *)

\* the results delete_backup raises with
DeleteFailures == {"DriverNotInitialized", "InvalidBackup", "DriverError",
                   "BackupNotFound"}

\* the delete_backup calls of a sweep that raised
FailedDeletes ==
    {c \in ThreadIds : /\ thr[c].op = "x_delete" /\ thr[c].pc = "done"
                       /\ thr[c].result \in DeleteFailures}

\* C32: a delete_backup that raises while init_host resumes the delete of a
\* deleting backup does not end init_host: the sweep goes on with the other
\* backups of the host and returns, and each backup it listed as deleting is
\* then destroyed or in error.
C32_SweepSurvivesDeleteFailure ==
    \A t \in Sweeps :
       /\ FailedDeletes # {} => thr[t].result \in {"", "ok"}
       /\ (thr[t].pc = "done" /\ thr[t].seen # <<>>)
          => /\ thr[t].result = "ok"
             /\ \A i \in 1..Len(thr[t].seen) :
                   LET e == thr[t].seen[i]
                   IN  e.rec.status = "deleting"
                       => \/ ~Live(e.id)
                          \/ backups[e.id].status = "error"

C32_Witness ==
    \E t \in SweepsDone :
       /\ Len(thr[t].seen) = 3
       /\ thr[t].seen[1].rec.status = "deleting"
       /\ \E c \in FailedDeletes : thr[c].bk = 1
       /\ backups[1].status = "error"
       /\ thr[t].seen[2].rec.status = "deleting" /\ ~Live(2)
       /\ thr[t].seen[3].rec.status = "deleting"

---------------------------------------------------------------------------
(* delete_backup when the driver's delete raises, under Spec *)

\* C33: when the driver's delete raises in delete_backup, the task does not
\* destroy the record: it sets the backup to error with the exception's
\* message as fail_reason, and it reserves and commits no quota.
C33_DriverFailureKeepsRecord ==
    /\ [](\A t \in ThreadIds :
             (thr[t].op = "x_delete"
              /\ (thr[t].pc = "xd_fail" \/ thr[t].result = "DriverError"))
             => thr[t].resv = "none")
    /\ [][\A t \in ThreadIds :
             (At(t, "x_delete", "xd_fail") /\ thr'[t].pc = "done")
             => /\ quota' = quota
                /\ backups'[thr[t].bk].deleted = backups[thr[t].bk].deleted
                /\ Live(thr[t].bk)
                   => /\ backups'[thr[t].bk].status = "error"
                      /\ backups'[thr[t].bk].fail_reason = "driver error"
                      /\ thr'[t].result = "DriverError"]_vars

C33_Witness ==
    \E t \in ThreadIds :
       /\ thr[t].op = "x_delete" /\ thr[t].result = "DriverError"
       /\ Live(thr[t].bk)
       /\ backups[thr[t].bk].status = "error"
       /\ backups[thr[t].bk].fail_reason = "driver error"
       /\ quota = QuotaAfter(1)

---------------------------------------------------------------------------
(* The quota correction of delete_backup (manager.py 671-695), under Spec *)

\* C34: once the driver's delete has returned, delete_backup destroys the
\* record whether or not it could read the volume and reserve the negative
\* deltas: when it could not, it commits nothing; when it could, it commits
\* exactly one backup and the volume's size in gigabytes less.
C34_QuotaCorrectionIsBestEffort ==
    /\ [](\A t \in ThreadIds :
             (thr[t].op = "x_delete" /\ thr[t].resv = "open")
             => /\ thr[t].resv_b = -1
                /\ thr[t].resv_gb = -volumes[thr[t].vol].size)
    /\ [][\A t \in ThreadIds :
             /\ (At(t, "x_delete", "xd_destroy") /\ thr'[t] # thr[t])
                => /\ backups'[thr[t].bk].deleted
                   /\ quota' = quota
                   /\ thr[t].resv # "open"
                      => /\ thr'[t].pc = "done" /\ thr'[t].result = "ok"
                         /\ thr'[t].resv = "none"
             /\ (At(t, "x_delete", "xd_commit") /\ thr'[t] # thr[t])
                => /\ backups[thr[t].bk].deleted
                   /\ quota' = [quota EXCEPT
                          !.in_use_b = @ - 1,
                          !.in_use_gb = @ - volumes[thr[t].vol].size]
                   /\ thr'[t].pc = "done" /\ thr'[t].result = "ok"]_vars

C34_Witness ==
    \E t \in ThreadIds :
       /\ thr[t].op = "x_delete" /\ thr[t].pc = "done"
       /\ thr[t].result = "ok" /\ thr[t].resv = "none"
       /\ backups[thr[t].bk].exists /\ backups[thr[t].bk].deleted
       /\ quota = QuotaAfter(1)

---------------------------------------------------------------------------
(* The end of the poll loop of create_instance_backup, under SpecGroup *)

\* C35: the poll loop reads the members' statuses at most
\* MOST_BACKUP_RETRIES times and ends at the first read that finds every
\* member available or error; the timeout handling runs only when the loop
\* is exhausted with a member unfinished, so a read that finds every member
\* finished, the last one included, is followed by no change of a member.
C35_TimeoutOnlyWhenUnfinished ==
    /\ [](\A t \in GroupTasks : thr[t].attempt < MOST_BACKUP_RETRIES)
    /\ [][\A t \in GroupTasks :
             (/\ At(t, "x_instance", "xi_poll")
              /\ thr'[t] # thr[t]
              /\ \A i \in 1..Len(thr[t].members) :
                    /\ Live(thr[t].members[i])
                    /\ backups[thr[t].members[i]].status
                          \in {"available", "error"})
             => thr'[t].pc \in {"xi_thaw", "done"}]_vars

---------------------------------------------------------------------------
(* The timeout handler beside the tasks it did not wait for, under SpecGroup *)

\* C36: a member backup that the timeout handler of the group has set to
\* error keeps that status and that fail_reason through every later step of
\* the group backup, the steps of the member's own task included.
C36_TimeoutIsFinal ==
    [][\A b \in BackupIds :
          (/\ backups[b].status = "error"
           /\ backups[b].fail_reason = "backing up isn't finished in 3600s")
          => /\ backups'[b].status = "error"
             /\ backups'[b].fail_reason = backups[b].fail_reason]_vars

---------------------------------------------------------------------------
(* The active marker over repeated restores, under SpecRestore (every       *)
(* backup starts with the description <<"d">>)                              *)

\* C38: a restore_backup task that ends a successful restore, with no other
\* call or task running beside it, leaves the backup's description equal to
\* the original description followed by one MAGICSTR, also when the backup
\* was restored from before.
C38_MarkerDoesNotAccumulate ==
    [][\A t \in ThreadIds :
          (/\ At(t, "x_restore", "xr_mark")
           /\ thr'[t].pc = "done" /\ thr'[t].result = "ok"
           /\ \A u \in ThreadIds \ {t} : ~Running(u))
          => backups'[thr[t].bk].desc = <<"d">> \o MAGICSTR]_vars

---------------------------------------------------------------------------
(* Restores of the backups of one volume, onto that volume or onto another  *)
(* volume                                                                   *)

\* the backed-up volume and a second volume to restore to
RestoreVolumeIds == 1..(NumVolumes + 1)

InitRestoreOnto ==
    /\ volumes = [v \in RestoreVolumeIds |-> InitVolume(v)]
    /\ backups = [b \in BackupIds |->
           IF b <= 2 THEN AvailableBackup(1, <<"d">>) ELSE NoBackup]
    /\ quota = QuotaAfter(2)
    /\ InitIdle

\* the restores are asked for one after the other: a call is made when the
\* call before it and its task have ended
NextRestoreOnto ==
    \/ \E b \in BackupIds, v \in RestoreVolumeIds :
          Quiescent /\ RestoreGetBackup(b, v)
    \/ \E t \in ThreadIds :
          \/ \E off \in BOOLEAN : RestoreGetVolume(t, off)
          \/ RestoreStashStatus(t)
          \/ RestoreSetRestoring(t)
          \/ RestoreSetVolume(t)
          \/ RestoreCast(t)

\* restore_backup of a call made in turn: the statuses it reads are those
\* the call left, so none of its precondition checks fails
NextXRestoreInTurn ==
    \/ \E m \in msgs : XRestoreGetBackup(m, FALSE)
    \/ \E t \in ThreadIds :
          \/ XRestoreGetVolume(t)
          \/ \E ok \in BOOLEAN : XRestoreSetHost(t, ok)
          \/ XRestoreFailVolume(t)
          \/ XRestoreFailBackup(t)
          \/ XRestoreDoneStatus(t)
          \/ XRestoreDoneStash(t)
          \/ XRestoreDoneBackup(t)
          \/ XRestoreListBackups(t)
          \/ XRestoreStripMarker(t)
          \/ XRestoreSetMarker(t)

SpecRestoreOnto ==
    InitRestoreOnto /\ [][NextRestoreOnto \/ NextXRestoreInTurn]_vars

\* the backups of volume v whose description ends with the active marker
Marked(v) ==
    {b \in LiveBackups : backups[b].volume_id = v
                         /\ EndsWithMagic(backups[b].desc)}

\* C37: after a sequence of restores, each of them successful, at most one
\* backup of a volume carries the active marker, whether the restores went
\* to the backups' own volume or to another one.
C37_OneActiveBackup ==
    (/\ Quiescent
     /\ \A t \in ThreadIds : thr[t].op = "x_restore" => thr[t].result = "ok")
    => \A v \in RestoreVolumeIds : Cardinality(Marked(v)) <= 1

---------------------------------------------------------------------------
(* The volumes of a group when create_instance_backup returns, under        *)
(* SpecGroup                                                                *)

\* C40: when create_instance_backup has returned, after a read that found
\* every member finished or after its timeout handling, no volume of the
\* group is backing-up: each has the status stashed in its description when
\* the group was accepted.
C40_GroupReturnFreesVolumes ==
    \A t \in GroupTasks :
       (/\ thr[t].pc = "done" /\ thr[t].result = "ok"
        /\ \A i \in 1..Len(thr[t].members) :
              backups[thr[t].members[i]].status \in {"available", "error"})
       => \A i \in 1..Len(thr[t].members) :
             LET v == backups[thr[t].members[i]].volume_id
             IN  /\ volumes[v].status # "backing-up"
                 /\ volumes[v].status = volumes[v].display_description

---------------------------------------------------------------------------
(* API.create_instance_backup: cinder/backup/api.py 445-645.  The call      *)
(* goes through the volumes of the instance in order; `members` holds the   *)
(* backups it has inserted so far, `todo` the volumes still to do.          *)

\* the call as its caller sees it when it has returned or raised
GroupFinish(t, res) ==
    [Finish(t, res) EXCEPT !.members = thr[t].members, !.todo = thr[t].todo]

\* lines 461-476: the volumes are read; each must be in-use and have its
\* backup service up
GroupCreateGetVolumes(incremental, periodic, serviceUp) ==
    /\ \A t \in ThreadIds : thr[t].op = "create_group" => ~Running(t)
    /\ NextBackupId + GroupSize - 1 \in BackupIds
    /\ LET call == [IdleThread EXCEPT !.op = "create_group",
                        !.incremental = incremental, !.periodic = periodic,
                        !.desc = CreateDescription(periodic, <<"d">>),
                        !.todo = Listed(GroupVolumeIds)]
       IN  NewCall(IF \E v \in GroupVolumeIds : volumes[v].status # "in-use"
                   THEN [call EXCEPT !.pc = "done", !.result = "InvalidVolume"]
                   ELSE IF ~serviceUp
                   THEN [call EXCEPT !.pc = "done",
                                     !.result = "ServiceNotFound"]
                   ELSE [call EXCEPT !.pc = "g_reserve"])
    /\ UNCHANGED <<volumes, backups, quota, msgs, ndup>>

\* lines 484-490: QUOTAS.reserve for the next volume; on OverQuota the call
\* goes back over the backups it has inserted (494-505) and then raises
GroupCreateReserve(t) ==
    /\ At(t, "create_group", "g_reserve")
    /\ LET v == Head(thr[t].todo)
           overs == Overs(1, volumes[v].size)
       IN  IF overs # {}
           THEN /\ \E over \in overs :
                      Step(t, IF thr[t].members = <<>>
                              THEN GroupFinish(t, QuotaError(over))
                              ELSE [thr[t] EXCEPT !.pc = "g_undo_volume",
                                       !.seen = thr[t].members,
                                       !.target = QuotaError(over)])
                /\ UNCHANGED quota
           ELSE /\ quota' = QuotaReserve(1, volumes[v].size)
                /\ Step(t, [thr[t] EXCEPT
                       !.vol = v, !.parent = None, !.pstatus = "",
                       !.resv = "open", !.resv_b = 1,
                       !.resv_gb = volumes[v].size,
                       !.pc = IF ~thr[t].periodic /\ thr[t].incremental
                              THEN "g_parent" ELSE "g_volume"])
    /\ UNCHANGED <<volumes, backups, msgs, nthr, ncalls, ndup>>

\* lines 494-505, one write at a time for the backup at the head of `seen`:
\* volume_update(status: in-use), backup_update(status: error), and
\* self.delete (69-99): backup_update(status: deleting) and the cast of
\* delete_backup; after the last backup the quota error is raised
GroupCreateUndo(t) ==
    /\ thr[t].op = "create_group"
    /\ thr[t].pc \in {"g_undo_volume", "g_undo_backup", "g_undo_delete",
                      "g_undo_cast"}
    /\ LET b == Head(thr[t].seen)
           rest == Tail(thr[t].seen)
       IN  IF thr[t].pc = "g_undo_volume"
           THEN /\ volumes' = [volumes EXCEPT
                       ![backups[b].volume_id].status = "in-use"]
                /\ Step(t, [thr[t] EXCEPT !.pc = "g_undo_backup"])
                /\ UNCHANGED <<backups, msgs>>
           ELSE IF thr[t].pc = "g_undo_backup"
           THEN /\ backups' = BackupUpdate(b,
                       [backups[b] EXCEPT !.status = "error"])
                /\ Step(t, [thr[t] EXCEPT !.pc = "g_undo_delete"])
                /\ UNCHANGED <<volumes, msgs>>
           ELSE IF thr[t].pc = "g_undo_delete"
           THEN /\ backups' = BackupUpdate(b,
                       [backups[b] EXCEPT !.status = "deleting"])
                /\ Step(t, [thr[t] EXCEPT !.pc = "g_undo_cast"])
                /\ UNCHANGED <<volumes, msgs>>
           ELSE /\ msgs' = Cast(t, "delete_backup", b, None)
                /\ Step(t, IF rest = <<>>
                           THEN GroupFinish(t, thr[t].target)
                           ELSE [thr[t] EXCEPT !.seen = rest,
                                               !.pc = "g_undo_volume"])
                /\ UNCHANGED <<volumes, backups>>
    /\ UNCHANGED <<quota, nthr, ncalls, ndup>>

\* lines 552-594: the parent of an incremental backup; a latest backup that
\* is creating raises InvalidBackup there and then
GroupCreateResolveParent(t) ==
    /\ At(t, "create_group", "g_parent")
    /\ LET latest == LatestBackup(thr[t].vol)
       IN  IF ParentIsCreating(latest)
           THEN Step(t, GroupFinish(t, "InvalidBackup"))
           ELSE Step(t, [thr[t] EXCEPT
                    !.parent = ParentOf(latest),
                    !.pstatus = IF ParentOf(latest) # None
                                THEN backups[latest].status ELSE "",
                    !.pc = "g_volume"])
    /\ UNCHANGED <<volumes, backups, quota, msgs, nthr, ncalls, ndup>>

\* lines 618-621: volume_update(status: backing-up, display_description:
\* the status read at 461)
GroupCreateSetBackingUp(t) ==
    /\ At(t, "create_group", "g_volume")
    /\ volumes' = [volumes EXCEPT
           ![thr[t].vol].status = "backing-up",
           ![thr[t].vol].display_description = "in-use"]
    /\ Step(t, [thr[t] EXCEPT !.pc = "g_insert"])
    /\ UNCHANGED <<backups, quota, msgs, nthr, ncalls, ndup>>

\* line 624: backup_create
GroupCreateInsert(t) ==
    /\ At(t, "create_group", "g_insert")
    /\ backups' = [backups EXCEPT ![NextBackupId] =
           NewBackupRecord(thr[t].vol, "name", <<"u">> \o thr[t].desc,
                           thr[t].parent, thr[t].pstatus)]
    /\ Step(t, [thr[t] EXCEPT !.bk = NextBackupId, !.pc = "g_commit"])
    /\ UNCHANGED <<volumes, quota, msgs, nthr, ncalls, ndup>>

\* lines 625-637: QUOTAS.commit; the backup joins the group and the loop
\* goes on with the next volume
GroupCreateCommit(t) ==
    /\ At(t, "create_group", "g_commit")
    /\ quota' = QuotaCommit(thr[t].resv_b, thr[t].resv_gb)
    /\ Step(t, [thr[t] EXCEPT
           !.resv = "committed",
           !.members = Append(thr[t].members, thr[t].bk),
           !.todo = Tail(thr[t].todo),
           !.pc = IF Tail(thr[t].todo) = <<>> THEN "g_cast"
                  ELSE "g_reserve"])
    /\ UNCHANGED <<volumes, backups, msgs, nthr, ncalls, ndup>>

\* lines 639-645 and rpcapi.py 103-127: one create_instance_backup message
\* for the whole group
GroupCreateCast(t) ==
    /\ At(t, "create_group", "g_cast")
    /\ msgs' = msgs \cup
          {[Message(t, "create_instance_backup", None, None) EXCEPT
               !.members = thr[t].members]}
    /\ Step(t, [GroupFinish(t, "ok") EXCEPT !.sent = TRUE])
    /\ UNCHANGED <<volumes, backups, quota, nthr, ncalls, ndup>>

NextGroupCreate ==
    \/ \E inc \in BOOLEAN, per \in BOOLEAN, up \in BOOLEAN :
          GroupCreateGetVolumes(inc, per, up)
    \/ \E t \in ThreadIds :
          \/ GroupCreateReserve(t)
          \/ GroupCreateUndo(t)
          \/ GroupCreateResolveParent(t)
          \/ GroupCreateSetBackingUp(t)
          \/ GroupCreateInsert(t)
          \/ GroupCreateCommit(t)
          \/ GroupCreateCast(t)

\* delete_backup of a backup no driver has touched (its service is unset)
NextXDeleteFresh ==
    \/ \E m \in msgs, init \in BOOLEAN : XDeleteGetBackup(m, FALSE, init)
    \/ \E t \in ThreadIds :
          \/ \E ok \in BOOLEAN, rok \in BOOLEAN : XDeleteSetHost(t, ok, rok)
          \/ XDeleteDestroy(t)
          \/ XDeleteCommit(t)

\* an instance with two in-use volumes.  The second volume may have a
\* backup already: one on this project's ledger, or one made by an
\* administrator of another project (backup_get_all_by_volume is called
\* with an elevated context and lists it too), which a group backup of that
\* project may still be finishing (the volume is given back at manager.py
\* 1036, before the backup is written at 1038)
InitGroupCreate ==
    /\ volumes = [v \in GroupVolumeIds |->
                     [InitVolume(v) EXCEPT !.status = "in-use"]]
    /\ \E n \in {0, 1}, s \in ParentStatuses, counted \in BOOLEAN :
          /\ n = 0 => ~counted
          /\ backups = [b \in BackupIds |->
                 IF b <= n
                 THEN [AvailableBackup(GroupSize, <<"d">>) EXCEPT !.status = s]
                 ELSE NoBackup]
          /\ quota = QuotaAfter(IF counted THEN 1 ELSE 0)
    /\ InitIdle

SpecGroupCreate ==
    InitGroupCreate /\ [][NextGroupCreate \/ NextXDeleteFresh]_vars

GroupCreateCalls == {t \in ThreadIds : thr[t].op = "create_group"}

\* C39: when API.create_instance_backup has raised on a quota error or on a
\* parent that is creating, reached at the volume at the head of `todo`, the
\* volume of every backup it had inserted is in-use again and the backup is
\* destroyed, being deleted, or in error; no earlier member is left creating
\* on a backing-up volume; the volume it raised at has kept its status.
C39_GroupAcceptanceIsAllOrNothing ==
    \A t \in GroupCreateCalls :
       (/\ thr[t].pc = "done"
        /\ thr[t].result \in QuotaErrors \cup {"InvalidBackup"})
       => /\ \A i \in 1..Len(thr[t].members) :
                LET b == thr[t].members[i]
                IN  /\ volumes[backups[b].volume_id].status = "in-use"
                    /\ \/ ~Live(b)
                       \/ backups[b].status \in {"deleting", "error"}
          /\ volumes[Head(thr[t].todo)].status = "in-use"

====
